---- MODULE Spec2Model ----
(***************************************************************************)
(* Contract analyzer: clause scorer, window generator, section detector,   *)
(* text preprocessor and the PDF backend chain, as state machines.         *)
(*                                                                         *)
(* Texts are sequences of tokens.  A token is a string that the regular    *)
(* expressions of the program treat as a unit (a word, a marker, one       *)
(* whitespace character); the text a sequence stands for is the            *)
(* concatenation of its tokens.  Scores are in tenths (0.4 is 4, 1.0 is    *)
(* 10), so that they stay integers.                                        *)
(***************************************************************************)
EXTENDS Integers, Sequences, FiniteSets, TLC

VARIABLES
    \* ---- ClauseExtractor (clause_extractor.py) ----
    clause_definitions,   \* self.clause_definitions: clause type -> definition
    compiled_patterns,    \* self.compiled_patterns: clause type -> keyword regexes
    segText,              \* the segment text handed to _calculate_confidence
    scored,               \* the (clause type, confidence) computed, once done
    \* ---- ClauseExtractor.segment_text ----
    sentIn,               \* the sentences the tokenizer finds in the text
    segArgs,              \* [use_sliding_window, max_window_size]
    segments,             \* the returned list of segments
    \* ---- SectionDetector ----
    docLines,             \* the text given to detect_sections, as lines
    sections,             \* the returned list of sections
    validation,           \* what validate_contract_structure says of them
    \* ---- TextPreprocessor ----
    rawText,              \* the text given to clean_text
    cleanedText,          \* clean_text(rawText)
    recleanedText,        \* clean_text(cleanedText)
    \* ---- format parsers / DocumentParser ----
    call,                 \* the state of one extraction call (a record)
    \* ---- ClauseExtractor.extract_clauses in a process ----
    NLTK_AVAILABLE,       \* the module global of clause_extractor.py
    config_data,          \* the content of the clause definitions file
    extractor,            \* the shared ClauseExtractor: its tables (a record)
    contract_text,        \* the text given to extract_clauses, as pieces
    extracted,            \* the lists returned by the calls so far, in order,
                          \* each with the value NLTK_AVAILABLE had
    \* ---- DOCXParser ----
    docx_document,        \* the document python-docx opened (a record)
    docx_result,          \* the dictionary DOCXParser.parse_bytes returns
    \* ---- ClauseExtractor._regex_sentence_split ----
    split_input,          \* the text given to the regex splitter (a record)
    split_output,         \* the list of sentences it returns
    \* ---- contract_analyzer.analyze_contract_with_fallback ----
    fallback_text,        \* the contract text, as its blank-line separated blocks
    fallback_results,     \* the dictionary returned: clause type -> excerpt
    \* ---- api/v1/contracts.py: POST /{contract_id}/analyze ----
    contracts,            \* the contracts table: id -> [user_id, analysis_results]
    api_response          \* the last request of the endpoint and its answer

scoreVars == <<clause_definitions, compiled_patterns, segText, scored>>
segVars == <<sentIn, segArgs, segments>>
sectVars == <<docLines, sections, validation>>
cleanVars == <<rawText, cleanedText, recleanedText>>
callVars == <<call>>
extractVars ==
    <<NLTK_AVAILABLE, config_data, extractor, contract_text, extracted>>
docxVars == <<docx_document, docx_result>>
splitVars == <<split_input, split_output>>
fallbackVars == <<fallback_text, fallback_results>>
apiVars == <<contracts, api_response>>
vars ==
    <<scoreVars, segVars, sectVars, cleanVars, callVars, extractVars, docxVars,
      splitVars,
      fallbackVars,
      apiVars>>


Min(a, b) == IF a < b THEN a ELSE b
Max(a, b) == IF a > b THEN a ELSE b

\* The elements of a sequence.
Range(s) == {s[i] : i \in 1..Len(s)}

\* All sequences over S of length at most n.
SeqsUpTo(S, n) == UNION {[1..k -> S] : k \in 0..n}

(***************************************************************************)
(* ClauseExtractor: the confidence engine                                  *)
(***************************************************************************)

\* ---- bounds of the scorer's inputs ----
MaxWords == 3

\* The words a segment is made of.  "TERMINATE" is "terminate" in capitals.
Vocabulary == {"terminate", "TERMINATE", "notice", "draft"}

\* str.lower() / re.IGNORECASE on the vocabulary.
lower(w) == IF w = "TERMINATE" THEN "terminate" ELSE w

\* The keys of confidence_weights.
WeightKeys == {"primary_keyword_match", "secondary_keyword_match",
               "pattern_match", "context_clue_match"}

\* dict.get(key, default)
Get(d, key, default) == IF key \in DOMAIN d THEN d[key] ELSE default

\* The defaults of _calculate_confidence, in tenths.
DefaultPrimaryWeight == 4
DefaultSecondaryWeight == 2
DefaultContextWeight == 1
PatternBoostPerMatch == 2
One == 10

\* re.compile(r'\b(k1|k2|...)\b', flags): a word of the text matches when it
\* is one of the keywords, letter case folded unless the flags keep it.
KeywordRegex(keywords, case_sensitive) ==
    [keywords |-> keywords, case_sensitive |-> case_sensitive]

\* patterns.get("primary") and the like when no regex was compiled (None).
NoPattern == KeywordRegex(<<>>, FALSE)

WordMatches(regex, word) ==
    \E k \in 1..Len(regex.keywords) :
        IF regex.case_sensitive
        THEN word = regex.keywords[k]
        ELSE lower(word) = lower(regex.keywords[k])

\* pattern.search(text)
search(regex, text) == \E i \in 1..Len(text) : WordMatches(regex, text[i])

\* len(pattern.findall(text))
findall_count(regex, text) ==
    Cardinality({i \in 1..Len(text) : WordMatches(regex, text[i])})

\* _compile_patterns_for_clause: one regex per non-empty keyword list.
compile_patterns_for_clause(definition, default_cs) ==
    LET case_sensitive ==
            Get(definition, "case_sensitive", default_cs)
        compile(keywords) ==
            IF keywords # <<>>
            THEN KeywordRegex(keywords, case_sensitive)
            ELSE NoPattern
    IN  [primary |-> compile(definition.primary_keywords),
         secondary |-> compile(definition.secondary_keywords),
         negative |-> compile(definition.negative_keywords)]

\* _convert_patterns_to_regex: the plain-string patterns, in order, each
\* compiled with re.IGNORECASE; pattern objects are skipped.
RECURSIVE convert_patterns_to_regex(_)
convert_patterns_to_regex(patterns) ==
    IF patterns = <<>> THEN <<>>
    ELSE LET p == Head(patterns)
             rest == convert_patterns_to_regex(Tail(patterns))
         IN  IF p.kind = "literal"
             THEN <<KeywordRegex(<<p.text>>, FALSE)>> \o rest
             ELSE rest

\* match_patterns: the first matching {"regex": ...} object alone, else the
\* literal patterns that match (named by position in the original list).
match_patterns(text, clause_name, definitions) ==
    IF text = <<>> \/ clause_name \notin DOMAIN definitions THEN <<>>
    ELSE
      LET definition == definitions[clause_name]
          regex_patterns == definition.regex_patterns
          original_patterns == definition.patterns
          structured == {i \in 1..Len(original_patterns) :
                           /\ original_patterns[i].kind = "regex"
                           /\ search(KeywordRegex(<<original_patterns[i].text>>, FALSE), text)}
          matched == {i \in 1..Len(regex_patterns) :
                           /\ search(regex_patterns[i], text)
                           /\ i <= Len(original_patterns)}
          first == CHOOSE i \in structured : \A j \in structured : i <= j
          RECURSIVE collect(_)
          collect(i) ==
              IF i > Len(regex_patterns) THEN <<>>
              ELSE (IF i \in matched THEN <<original_patterns[i]>> ELSE <<>>)
                   \o collect(i + 1)
      IN  IF structured # {} THEN <<original_patterns[first]>>
          ELSE collect(1)

\* "if negative_pattern and negative_pattern.search(text)": the early reject.
negative_keyword_found_never(patterns, text) == FALSE
negative_keyword_found(patterns, text) ==
    patterns.negative # NoPattern /\ search(patterns.negative, text)

\* "if not has_primary_match and not has_pattern_match": nothing anchors a
\* positive score.
no_anchor_match_secondary_counts(has_primary_match, has_pattern_match, others) ==
    ~has_primary_match /\ ~has_pattern_match /\ others <= 0
no_anchor_match(has_primary_match, has_pattern_match, others) ==
    ~has_primary_match /\ ~has_pattern_match

\* "min(1.0, max(0.0, total_confidence))"
normalize_confidence_upper_only(total_confidence) == Min(One, total_confidence)
normalize_confidence(total_confidence) == Min(One, Max(0, total_confidence))

\* _calculate_confidence, in tenths.
calculate_confidence(text, clause_type, definition, definitions, compiled, default_cs) ==
    LET patterns == Get(compiled, clause_type,
                        [primary |-> NoPattern, secondary |-> NoPattern,
                         negative |-> NoPattern])
        confidence_weights == definition.confidence_weights
        primary_weight ==
            Get(confidence_weights, "primary_keyword_match", DefaultPrimaryWeight)
        has_primary_match ==
            patterns.primary # NoPattern /\ search(patterns.primary, text)
        primary_score ==
            IF has_primary_match
            THEN Min(One, findall_count(patterns.primary, text) * primary_weight)
            ELSE 0
        secondary_score ==
            IF patterns.secondary # NoPattern
            THEN Min(One, findall_count(patterns.secondary, text)
                          * Get(confidence_weights, "secondary_keyword_match",
                                DefaultSecondaryWeight))
            ELSE 0
        matched_patterns == match_patterns(text, clause_type, definitions)
        has_pattern_match == matched_patterns # <<>>
        pattern_score ==
            IF has_pattern_match
            THEN Min(One, Len(matched_patterns) * PatternBoostPerMatch)
            ELSE 0
        context_clues == definition.context_clues
        case_sensitive ==
            Get(definition, "case_sensitive", default_cs)
        context_matches ==
            Cardinality({i \in 1..Len(context_clues) :
                search(KeywordRegex(<<context_clues[i]>>, case_sensitive), text)})
        context_score ==
            IF context_matches > 0
            THEN Min(One, context_matches
                          * Get(confidence_weights, "context_clue_match",
                                DefaultContextWeight))
            ELSE 0
        total_confidence ==
            primary_score + secondary_score + pattern_score + context_score
    IN  IF text = <<>> THEN 0
        ELSE IF negative_keyword_found(patterns, text) THEN 0
        ELSE IF no_anchor_match(has_primary_match, has_pattern_match,
                                secondary_score + context_score) THEN 0
        ELSE normalize_confidence(total_confidence)

\* ---- the configurations the extractor is constructed with ----
ClauseTypes == {"termination", "confidentiality"}

Literal(w) == [kind |-> "literal", text |-> w]
RegexObject(w) == [kind |-> "regex", text |-> w]

\* confidence_weights: absent keys, weights above 1.0, weights below 0.0.
WeightConfigs ==
    {<<>>,
     [k \in WeightKeys |-> 15],
     [k \in WeightKeys |-> -5]}

PatternConfigs ==
    {<<>>,
     <<Literal("notice")>>,
     <<RegexObject("draft"), Literal("terminate"), Literal("notice")>>}

\* The definitions of one clause type, as read from the configuration file.
ConfiguredDefinitions ==
    {[primary_keywords |-> pk, secondary_keywords |-> sk,
      negative_keywords |-> nk, patterns |-> pt, context_clues |-> cc,
      confidence_weights |-> cw] :
        pk \in {<<>>, <<"terminate">>}, sk \in {<<>>, <<"notice">>},
        nk \in {<<>>, <<"draft">>}, pt \in PatternConfigs,
        cc \in {<<>>, <<"notice">>}, cw \in WeightConfigs}

\* The same definition with "case_sensitive": true.
WithCaseSensitive(d) ==
    [k \in DOMAIN d \cup {"case_sensitive"} |->
        IF k = "case_sensitive" THEN TRUE ELSE d[k]]

ConfidentialityDefinition ==
    [primary_keywords |-> <<"notice">>, secondary_keywords |-> <<>>,
     negative_keywords |-> <<>>, patterns |-> <<>>, context_clues |-> <<>>,
     confidence_weights |-> <<>>]

\* _setup_preprocessing: every definition gains its "regex_patterns".
setup_preprocessing(definitions) ==
    [t \in DOMAIN definitions |->
        [k \in DOMAIN definitions[t] \cup {"regex_patterns"} |->
            IF k = "regex_patterns"
            THEN convert_patterns_to_regex(definitions[t].patterns)
            ELSE definitions[t][k]]]

\* _setup_preprocessing: the compiled keyword regexes of every clause type.
setup_compiled_patterns(definitions, default_cs) ==
    [t \in DOMAIN definitions |->
        compile_patterns_for_clause(definitions[t], default_cs)]

\* self.default_case_sensitive, as the configuration of this model sets it.
default_case_sensitive == FALSE

\* No confidence computed yet; and the result of one computation.
NoScore == [done |-> FALSE, clause_type |-> "", confidence |-> 0]
Score(t, c) == [done |-> TRUE, clause_type |-> t, confidence |-> c]

\* The scorer at rest, in the behaviours of the other components.
IdleScore ==
    /\ clause_definitions = <<>>
    /\ compiled_patterns = <<>>
    /\ segText = <<>>
    /\ scored = Score("", 0)

\* After ClauseExtractor.__init__, with a segment about to be scored.
InitScore ==
    /\ \E d \in ConfiguredDefinitions, cs \in BOOLEAN :
         LET loaded == [t \in ClauseTypes |->
                          IF t = "termination"
                          THEN (IF cs THEN WithCaseSensitive(d) ELSE d)
                          ELSE ConfidentialityDefinition]
         IN  /\ clause_definitions = setup_preprocessing(loaded)
             /\ compiled_patterns =
                    setup_compiled_patterns(loaded, default_case_sensitive)
    /\ segText \in SeqsUpTo(Vocabulary, MaxWords)
    /\ scored = NoScore

\* One call of _calculate_confidence(segText, t, clause_definitions[t]).
CalculateConfidence(t) ==
    /\ ~scored.done
    /\ scored' = Score(t, calculate_confidence(
                      segText, t, clause_definitions[t], clause_definitions,
                      compiled_patterns, default_case_sensitive))
    /\ UNCHANGED <<clause_definitions, compiled_patterns, segText>>
    /\ UNCHANGED <<segVars, sectVars, cleanVars, callVars, extractVars, docxVars, splitVars, fallbackVars, apiVars>>


(***************************************************************************)
(* ClauseExtractor.segment_text: sentences and sliding windows             *)
(*                                                                         *)
(* The text is given as the sentences the tokenizer (sent_tokenize) finds  *)
(* in it, each with the length of its stripped text; a sentence is named   *)
(* by its position among them.                                             *)
(***************************************************************************)
MaxSentences == 4

\* Lengths of tokenized sentences: artifacts and real sentences.
SentenceLengths == {5, 10, 11}

\* The values of max_window_size a caller passes.
WindowArgs == -1..5

\* "len(s.strip()) > 10"
MinSentenceLength == 10

\* The upper end of "Clamp to 1-3".
WindowCap == 3

Sentence(i, n) == [src |-> i, len |-> n]

\* _split_into_sentences, tokenizer path: the sentences longer than 10
\* characters, in order.
RECURSIVE keep_long_sentences(_, _)
keep_long_sentences(tokenized, i) ==
    IF i > Len(tokenized) THEN <<>>
    ELSE (IF tokenized[i] > MinSentenceLength
          THEN <<Sentence(i, tokenized[i])>> ELSE <<>>)
         \o keep_long_sentences(tokenized, i + 1)

split_into_sentences(tokenized) == keep_long_sentences(tokenized, 1)

\* "max_window_size = max(1, min(max_window_size, 3))"
clamp_window_size_unclamped(max_window_size) == Max(1, max_window_size)
clamp_window_size(max_window_size) == Max(1, Min(max_window_size, WindowCap))

\* ' '.join(sentences[start_idx:end_idx + 1]): the sentences of the window.
window_text(sentences, start_idx, end_idx) ==
    [k \in 1..(end_idx - start_idx + 1) |-> sentences[start_idx + k].src]

\* The inner loop: every window of window_size sentences, by start index;
\* first_id is segment_id when the loop starts.
windows_of_size(sentences, window_size, first_id) ==
    [k \in 1..Max(0, Len(sentences) - window_size + 1) |->
        [segment_id |-> first_id + k - 1,
         start_index |-> k - 1,
         end_index |-> k - 1 + window_size - 1,
         text |-> window_text(sentences, k - 1, k - 1 + window_size - 1)]]

\* The outer loop: window sizes window_size..max_size, in order.
RECURSIVE sliding_windows(_, _, _, _)
sliding_windows(sentences, window_size, max_size, first_id) ==
    IF window_size > max_size THEN <<>>
    ELSE LET ws == windows_of_size(sentences, window_size, first_id)
         IN  ws \o sliding_windows(sentences, window_size + 1, max_size,
                                   first_id + Len(ws))

\* segment_text(text, use_sliding_window, max_window_size)
segment_text(tokenized, use_sliding_window, max_window_size) ==
    LET sentences == split_into_sentences(tokenized)
    IN  IF tokenized = <<>> \/ sentences = <<>> THEN <<>>
        ELSE IF use_sliding_window
        THEN sliding_windows(sentences, 1,
                             clamp_window_size(max_window_size), 0)
        ELSE windows_of_size(sentences, 1, 0)

IdleSeg ==
    /\ sentIn = <<>>
    /\ segArgs = [use_sliding_window |-> TRUE, max_window_size |-> 0]
    /\ segments = [done |-> TRUE, list |-> <<>>]

InitSeg ==
    /\ sentIn \in SeqsUpTo(SentenceLengths, MaxSentences)
    /\ segArgs \in [use_sliding_window : BOOLEAN, max_window_size : WindowArgs]
    /\ segments = [done |-> FALSE, list |-> <<>>]

\* One call of segment_text.
SegmentText ==
    /\ ~segments.done
    /\ segments' = [done |-> TRUE,
                    list |-> segment_text(sentIn, segArgs.use_sliding_window,
                                          segArgs.max_window_size)]
    /\ UNCHANGED <<sentIn, segArgs>>
    /\ UNCHANGED <<scoreVars, sectVars, cleanVars, callVars, extractVars, docxVars, splitVars, fallbackVars, apiVars>>

(***************************************************************************)
(* SectionDetector                                                         *)
(*                                                                         *)
(* The text is a sequence of lines joined by "\n".  Every line is one of   *)
(* a few fixed lines, one per shape the header patterns tell apart; the    *)
(* patterns are matched on the lines as the regex engine matches them on   *)
(* the characters, \s running across line ends included.                   *)
(***************************************************************************)
MaxLines == 4

\* The lines a document is made of.
Lines ==
    {"the fee is due.",   \* a sentence: no pattern matches it
     "the fee is due",    \* lower case and spaces only
     "",                  \* an empty line
     "1. Term",           \* numbered
     "2. Termination",    \* numbered, the title a keyword that holds another
     "Section 2: Term",   \* Section N
     "I. Scope",          \* Roman numeral (and a capital letter)
     "(a) scope",         \* lettered
     "PAYMENT",           \* all capitals
     "Payment Terms"}     \* title case

\* len(line)
LineLen(line) ==
    CASE line = "the fee is due." -> 15
      [] line = "the fee is due" -> 14
      [] line = "" -> 0
      [] line = "1. Term" -> 7
      [] line = "2. Termination" -> 14
      [] line = "Section 2: Term" -> 15
      [] line = "I. Scope" -> 8
      [] line = "(a) scope" -> 9
      [] line = "PAYMENT" -> 7
      [] line = "Payment Terms" -> 13

\* Offset of the first character of line i of the text.
RECURSIVE LineStart(_, _)
LineStart(text, i) ==
    IF i <= 1 THEN 0 ELSE LineStart(text, i - 1) + LineLen(text[i - 1]) + 1

\* Offset just after the last character of line i (before its "\n").
LineEnd(text, i) == LineStart(text, i) + LineLen(text[i])

\* len(text)
TextLen(text) == IF text = <<>> THEN 0 ELSE LineEnd(text, Len(text))

\* The numbered and lettered patterns: (number, title) of a line they match.
\*   ^(\d+(?:\.\d+)*\.)\s+(.+)$
\*   ^(?:Section|Article)\s+(\d+(?:\.\d+)*)[:\.]?\s*(.*)$
\*   ^([IVX]+\.)\s+(.+)$
\*   ^([A-Z]\.)\s+(.+)$
\*   ^\(([a-z])\)\s+(.+)$
TwoGroupPatterns == 1..5

TwoGroupMatch(pattern, line) ==
    CASE pattern = 1 /\ line = "1. Term" -> <<"1.", "Term">>
      [] pattern = 1 /\ line = "2. Termination" -> <<"2.", "Termination">>
      [] pattern = 2 /\ line = "Section 2: Term" -> <<"2", "Term">>
      [] pattern = 3 /\ line = "I. Scope" -> <<"I.", "Scope">>
      [] pattern = 4 /\ line = "I. Scope" -> <<"I.", "Scope">>
      [] pattern = 5 /\ line = "(a) scope" -> <<"a", "scope">>
      [] OTHER -> <<>>

\* ^([A-Z\s]{3,})$ : the lines made of capitals and whitespace only.
AllCapsLines == {"PAYMENT", ""}

\* ^([A-Z][a-z\s]+(?:[A-Z][a-z\s]+)*):?\s*$ : the lines it can start at, and
\* the lines it runs through once started.
TitleCaseStart(line) == line = "Payment Terms"
TitleCaseBodyLines == {"Payment Terms", "the fee is due", ""}

\* The last line of the longest run of lines from..j, all among `body`, that
\* starts at line `from` (from - 1 when line `from` is not among them).
RECURSIVE RunEnd(_, _, _)
RunEnd(text, from, body) ==
    IF from <= Len(text) /\ text[from] \in body
    THEN RunEnd(text, from + 1, body)
    ELSE from - 1

\* The lines first..last of the text, as the title they make:
\* group(1).strip(), so without the empty lines at either end.
RECURSIVE StripLines(_)
StripLines(ls) ==
    IF ls = <<>> THEN <<>>
    ELSE IF Head(ls) = "" THEN StripLines(Tail(ls))
    ELSE IF ls[Len(ls)] = "" THEN StripLines(SubSeq(ls, 1, Len(ls) - 1))
    ELSE ls

Header(start, end, number, title, from_line, to_line, pattern) ==
    [start |-> start, end |-> end, number |-> number, title |-> title,
     from_line |-> from_line, to_line |-> to_line, pattern_type |-> pattern]

\* pattern.finditer(text) for a two-group pattern, from line i on: the
\* headers appended, `count` being len(headers) before.
RECURSIVE find_two_group(_, _, _)
find_two_group(text, pattern, i) ==
    IF i > Len(text) THEN <<>>
    ELSE LET m == TwoGroupMatch(pattern, text[i])
         IN  (IF m # <<>>
              THEN <<Header(LineStart(text, i), LineEnd(text, i), m[1],
                            <<m[2]>>, i, i, pattern)>>
              ELSE <<>>)
             \o find_two_group(text, pattern, i + 1)

\* finditer for the all-capitals (6) and title-case (7) patterns, from line i
\* on: a match runs over whole lines, to the end of the last line the
\* character class covers; the number is str(len(headers) + 1).
RECURSIVE find_one_group(_, _, _, _)
find_one_group(text, pattern, i, count) ==
    IF i > Len(text) THEN <<>>
    ELSE LET j == IF pattern = 6 THEN RunEnd(text, i, AllCapsLines)
                  ELSE IF TitleCaseStart(text[i])
                       THEN RunEnd(text, i + 1, TitleCaseBodyLines)
                       ELSE i - 1
             length == LineEnd(text, j) - LineStart(text, i)
             matches == j >= i /\ (pattern = 7 \/ length >= 3)
         IN  IF matches
             THEN <<Header(LineStart(text, i), LineEnd(text, j),
                           ToString(count + 1),
                           StripLines(SubSeq(text, i, j)), i, j, pattern)>>
                  \o find_one_group(text, pattern, j + 1, count + 1)
             ELSE find_one_group(text, pattern, i + 1, count)

\* The loop over self.section_patterns: all matches, pattern by pattern.
RECURSIVE find_all_patterns(_, _, _)
find_all_patterns(text, pattern, headers) ==
    IF pattern > 7 THEN headers
    ELSE find_all_patterns(text, pattern + 1,
            headers \o (IF pattern \in TwoGroupPatterns
                        THEN find_two_group(text, pattern, 1)
                        ELSE find_one_group(text, pattern, 1, Len(headers))))

\* headers.sort(key=lambda x: x['start']): a stable sort, by insertion.
RECURSIVE insert_by_start(_, _)
insert_by_start(sorted, h) ==
    IF sorted = <<>> THEN <<h>>
    ELSE IF sorted[Len(sorted)].start <= h.start THEN Append(sorted, h)
    ELSE Append(insert_by_start(SubSeq(sorted, 1, Len(sorted) - 1), h),
                sorted[Len(sorted)])

RECURSIVE sort_by_start(_)
sort_by_start(headers) ==
    IF headers = <<>> THEN <<>>
    ELSE insert_by_start(sort_by_start(SubSeq(headers, 1, Len(headers) - 1)),
                         headers[Len(headers)])

\* _similar_titles: the title lower-cased, its punctuation removed.  The
\* titles of this model hold no punctuation, so only the case is folded.
normalize_title_line(line) ==
    CASE line = "Term" -> "term"
      [] line = "Termination" -> "termination"
      [] line = "Scope" -> "scope"
      [] line = "PAYMENT" -> "payment"
      [] line = "Payment Terms" -> "payment terms"
      [] OTHER -> line

similar_titles(title1, title2) ==
    /\ Len(title1) = Len(title2)
    /\ \A k \in 1..Len(title1) :
           normalize_title_line(title1[k]) = normalize_title_line(title2[k])

\* "header['start'] - last_header['end'] < 10"
MinHeaderGap == 10

\* The test that drops a header as a re-detection of the one before.
is_duplicate_header_by_gap_only(header, last_header) ==
    header.start - last_header.end < MinHeaderGap
is_duplicate_header(header, last_header) ==
    \/ header.start - last_header.end < MinHeaderGap
    \/ similar_titles(header.title, last_header.title)

\* _deduplicate_headers: the loop over headers[1:], from index i on.
RECURSIVE deduplicate_from(_, _, _)
deduplicate_from(headers, i, deduplicated) ==
    IF i > Len(headers) THEN deduplicated
    ELSE deduplicate_from(headers, i + 1,
            IF is_duplicate_header(headers[i], deduplicated[Len(deduplicated)])
            THEN deduplicated
            ELSE Append(deduplicated, headers[i]))

deduplicate_headers(headers) ==
    IF headers = <<>> THEN <<>>
    ELSE deduplicate_from(headers, 2, <<headers[1]>>)

\* _find_section_headers
find_section_headers(text) ==
    deduplicate_headers(sort_by_start(find_all_patterns(text, 1, <<>>)))

\* _determine_level, on the numbers the patterns of this model capture.
determine_level(number) ==
    CASE number \in {"1.", "2."} -> 1      \* ^\d+\.$
      [] number = "I." -> 1      \* ^[IVX]+\.$
      [] OTHER -> 1              \* "2", "a", a count: the default

\* self.section_keywords, in order.
section_keywords ==
    <<"definitions", "interpretation", "parties", "scope", "term", "duration",
      "obligations", "payment", "fees", "termination", "confidentiality",
      "warranty", "liability", "indemnification", "dispute", "governing law",
      "amendment", "assignment", "force majeure", "severability",
      "entire agreement", "notices", "counterparts", "execution",
      "representations", "covenants">>

\* "word in title.lower()", for the titles of this model.
title_contains(title, word) ==
    \E k \in 1..Len(title) :
        \/ word = "term" /\ title[k] \in {"Term", "Payment Terms", "Termination"}
        \/ word = "termination" /\ title[k] = "Termination"
        \/ word = "scope" /\ title[k] \in {"Scope", "scope"}
        \/ word = "payment" /\ title[k] \in {"PAYMENT", "Payment Terms"}
        \/ word = "fee" /\ title[k] = "the fee is due"

\* _classify_section
classify_section(title) ==
    LET hits == {k \in 1..Len(section_keywords) :
                    title_contains(title, section_keywords[k])}
        any(words) == \E w \in words : title_contains(title, w)
    IN  IF hits # {}
        THEN section_keywords[CHOOSE k \in hits : \A j \in hits : k <= j]
        ELSE IF any({"definition", "meaning", "interpretation"}) THEN "definitions"
        ELSE IF any({"payment", "fee", "cost", "price"}) THEN "payment"
        ELSE IF any({"term", "duration", "period"}) THEN "term"
        ELSE IF any({"obligation", "duty", "requirement"}) THEN "obligations"
        ELSE IF any({"termination", "expiration", "end"}) THEN "termination"
        ELSE IF any({"confidential", "non-disclosure", "privacy"}) THEN "confidentiality"
        ELSE IF any({"dispute", "resolution", "arbitration"}) THEN "dispute"
        ELSE "general"

Section(number, title, start_pos, end_pos, level, type) ==
    [number |-> number, title |-> title, start_pos |-> start_pos,
     end_pos |-> end_pos, level |-> level, type |-> type]

\* "if not text: return []"
empty_text_has_one_section(text) == FALSE
empty_text_has_no_section(text) == TextLen(text) = 0

\* detect_sections.  (The 'content' of a section is its text between
\* start_pos and end_pos, less the header: it is read off the offsets.)
detect_sections(text) ==
    LET potential_headers == find_section_headers(text)
    IN  IF empty_text_has_no_section(text) THEN <<>>
        ELSE IF potential_headers = <<>>
        THEN <<Section("1", <<"Document Content">>, 0, TextLen(text), 1,
                       "content")>>
        ELSE [i \in 1..Len(potential_headers) |->
                LET header == potential_headers[i]
                IN  Section(header.number, header.title, header.start,
                            IF i + 1 <= Len(potential_headers)
                            THEN potential_headers[i + 1].start
                            ELSE TextLen(text),
                            determine_level(header.number),
                            classify_section(header.title))]

\* ContractParser.validate_contract_structure: the essential sections of
\* which no section has the type, in the order of essential_sections.
essential_sections == <<"definitions", "obligations", "payment", "termination">>

RECURSIVE missing_sections_from(_, _)
missing_sections_from(found_types, i) ==
    IF i > Len(essential_sections) THEN <<>>
    ELSE (IF essential_sections[i] \notin found_types
          THEN <<essential_sections[i]>> ELSE <<>>)
         \o missing_sections_from(found_types, i + 1)

missing_sections(section_list) ==
    missing_sections_from({section_list[i].type : i \in 1..Len(section_list)}, 1)

IdleSect ==
    /\ docLines = <<"">>
    /\ sections = [done |-> TRUE, list |-> <<>>]
    /\ validation = [done |-> TRUE, missing_sections |-> <<>>]

\* A text of 1..MaxLines lines; the single empty line is the empty text.
InitSect ==
    /\ docLines \in SeqsUpTo(Lines, MaxLines) \ {<<>>}
    /\ sections = [done |-> FALSE, list |-> <<>>]
    /\ validation = [done |-> FALSE, missing_sections |-> <<>>]

\* One call of detect_sections.
DetectSections ==
    /\ ~sections.done
    /\ sections' = [done |-> TRUE, list |-> detect_sections(docLines)]
    /\ UNCHANGED <<docLines, validation>>
    /\ UNCHANGED <<scoreVars, segVars, cleanVars, callVars, extractVars, docxVars, splitVars, fallbackVars, apiVars>>

\* One call of validate_contract_structure on the detected sections.
ValidateContractStructure ==
    /\ sections.done /\ ~validation.done
    /\ validation' = [done |-> TRUE,
                      missing_sections |-> missing_sections(sections.list)]
    /\ UNCHANGED <<docLines, sections>>
    /\ UNCHANGED <<scoreVars, segVars, cleanVars, callVars, extractVars, docxVars, splitVars, fallbackVars, apiVars>>

(***************************************************************************)
(* TextPreprocessor.clean_text                                             *)
(*                                                                         *)
(* A text is a sequence of the tokens below; the substitutions are done on *)
(* the tokens as re.sub does them on the characters: leftmost match first, *)
(* matches not overlapping, the next search starting where the last match  *)
(* ended, and ^ judged on the text before the substitution.                *)
(***************************************************************************)
MaxTokens == 4

Dashes == "---"
PageLabel == "Page 1"
TableLabel == "Table 1"
HeaderLabel == "Header:"
Space == " "
Newline == "\n"
Letter == "x"
Numbering == "1."
Bullet == "bullet"      \* the one non-ASCII character of the model, U+2022

Tokens == {Dashes, PageLabel, TableLabel, HeaderLabel, Space, Newline,
           Letter, Numbering, Bullet}

\* \s
IsSpace(token) == token \in {Space, Newline}

\* The index of the first token at or after i that is not whitespace
\* (Len(text) + 1 when there is none): where \s* stops.
RECURSIVE SkipSpace(_, _)
SkipSpace(text, i) ==
    IF i <= Len(text) /\ IsSpace(text[i]) THEN SkipSpace(text, i + 1) ELSE i

\* The index of the first token at or after i that is not `token`.
RECURSIVE SkipToken(_, _, _)
SkipToken(text, i, token) ==
    IF i <= Len(text) /\ text[i] = token
    THEN SkipToken(text, i + 1, token) ELSE i

\* _fix_encoding_issues: the quote and dash classes match no token of the
\* model; 'weird_chars' ([^\x00-\x7F]+) turns a run of non-ASCII characters
\* into one space.
RECURSIVE fix_encoding_issues_from(_, _)
fix_encoding_issues_from(text, i) ==
    IF i > Len(text) THEN <<>>
    ELSE IF text[i] = Bullet
    THEN <<Space>> \o fix_encoding_issues_from(text, SkipToken(text, i, Bullet))
    ELSE <<text[i]>> \o fix_encoding_issues_from(text, i + 1)

fix_encoding_issues_keeping_symbols(text) == text
fix_encoding_issues(text) == fix_encoding_issues_from(text, 1)

\* Where a match of  ---\s*Page\s+\d+\s*---  that starts at token i ends
\* (0 when none starts there).
page_break_end(text, i) ==
    IF text[i] # Dashes THEN 0
    ELSE LET j == SkipSpace(text, i + 1)
         IN  IF j > Len(text) \/ text[j] # PageLabel THEN 0
             ELSE LET k == SkipSpace(text, j + 1)
                  IN  IF k <= Len(text) /\ text[k] = Dashes THEN k ELSE 0

\* The first "---" at or after i with no line end before it (0 when none):
\* where  .*?---  stops.
RECURSIVE NextDashesOnLine(_, _)
NextDashesOnLine(text, i) ==
    IF i > Len(text) \/ text[i] = Newline THEN 0
    ELSE IF text[i] = Dashes THEN i
    ELSE NextDashesOnLine(text, i + 1)

\* Where a match of  ---\s*Table\s+\d+.*?---  that starts at token i ends.
table_marker_end(text, i) ==
    IF text[i] # Dashes THEN 0
    ELSE LET j == SkipSpace(text, i + 1)
         IN  IF j > Len(text) \/ text[j] # TableLabel THEN 0
             ELSE NextDashesOnLine(text, j + 1)

\* patterns['page_breaks'].sub('\n', text)
RECURSIVE remove_page_breaks(_, _)
remove_page_breaks(text, i) ==
    IF i > Len(text) THEN <<>>
    ELSE LET e == page_break_end(text, i)
         IN  IF e > 0 THEN <<Newline>> \o remove_page_breaks(text, e + 1)
             ELSE <<text[i]>> \o remove_page_breaks(text, i + 1)

\* patterns['table_markers'].sub('\n', text)
RECURSIVE remove_table_markers(_, _)
remove_table_markers(text, i) ==
    IF i > Len(text) THEN <<>>
    ELSE LET e == table_marker_end(text, i)
         IN  IF e > 0 THEN <<Newline>> \o remove_table_markers(text, e + 1)
             ELSE <<text[i]>> \o remove_table_markers(text, i + 1)

\* patterns['header_footer'].sub('', text):  (?:Header|Footer):\s*
RECURSIVE remove_header_footer(_, _)
remove_header_footer(text, i) ==
    IF i > Len(text) THEN <<>>
    ELSE IF text[i] = HeaderLabel
    THEN remove_header_footer(text, SkipSpace(text, i + 1))
    ELSE <<text[i]>> \o remove_header_footer(text, i + 1)

\* _remove_parsing_artifacts
remove_parsing_artifacts(text) ==
    remove_header_footer(
        remove_table_markers(remove_page_breaks(text, 1), 1), 1)

\* patterns['excessive_spaces'].sub(' ', text):  ' {2,}'
RECURSIVE collapse_spaces(_, _)
collapse_spaces(text, i) ==
    IF i > Len(text) THEN <<>>
    ELSE IF text[i] = Space
    THEN <<Space>> \o collapse_spaces(text, SkipToken(text, i, Space))
    ELSE <<text[i]>> \o collapse_spaces(text, i + 1)

\* patterns['excessive_newlines'].sub('\n\n', text):  '\n{3,}'
RECURSIVE collapse_newlines(_, _)
collapse_newlines(text, i) ==
    IF i > Len(text) THEN <<>>
    ELSE IF text[i] = Newline
    THEN LET e == SkipToken(text, i, Newline)
         IN  (IF e - i >= 3 THEN <<Newline, Newline>>
              ELSE SubSeq(text, i, e - 1))
             \o collapse_newlines(text, e)
    ELSE <<text[i]>> \o collapse_newlines(text, i + 1)

\* Whether the whitespace run i..e-1 holds a line end.
HasNewline(text, i, e) == \E k \in i..(e - 1) : text[k] = Newline

\* re.sub(r'\s*\n\s*', '\n', text)
RECURSIVE fix_line_break_spacing(_, _)
fix_line_break_spacing(text, i) ==
    IF i > Len(text) THEN <<>>
    ELSE IF IsSpace(text[i])
    THEN LET e == SkipSpace(text, i)
         IN  (IF HasNewline(text, i, e) THEN <<Newline>>
              ELSE SubSeq(text, i, e - 1))
             \o fix_line_break_spacing(text, e)
    ELSE <<text[i]>> \o fix_line_break_spacing(text, i + 1)

\* _normalize_whitespace
normalize_whitespace(text) ==
    fix_line_break_spacing(
        collapse_newlines(collapse_spaces(text, 1), 1), 1)

\* ^ under re.MULTILINE: the start of the text or just after a line end.
AtLineStart(text, i) == i = 1 \/ text[i - 1] = Newline

\* patterns['bullet_points'].sub(<bullet, space>, text):
\*   ^[\s]*[bullets]\s*
RECURSIVE standardize_bullets(_, _)
standardize_bullets(text, i) ==
    IF i > Len(text) THEN <<>>
    ELSE LET j == SkipSpace(text, i)
         IN  IF AtLineStart(text, i) /\ j <= Len(text) /\ text[j] = Bullet
             THEN <<Bullet, Space>>
                  \o standardize_bullets(text, SkipSpace(text, j + 1))
             ELSE <<text[i]>> \o standardize_bullets(text, i + 1)

\* re.sub(r'^\s*(\d+)\.\s+', r'\1. ', text, flags=re.MULTILINE)
RECURSIVE clean_numbered_lists(_, _)
clean_numbered_lists(text, i) ==
    IF i > Len(text) THEN <<>>
    ELSE LET j == SkipSpace(text, i)
             e == SkipSpace(text, j + 1)
         IN  IF /\ AtLineStart(text, i)
                /\ j <= Len(text) /\ text[j] = Numbering
                /\ e > j + 1
             THEN <<Numbering, Space>> \o clean_numbered_lists(text, e)
             ELSE <<text[i]>> \o clean_numbered_lists(text, i + 1)

\* _clean_formatting
clean_formatting(text) ==
    clean_numbered_lists(standardize_bullets(text, 1), 1)

\* str.strip(), on the tokens
RECURSIVE strip(_)
strip(text) ==
    IF text = <<>> THEN <<>>
    ELSE IF IsSpace(Head(text)) THEN strip(Tail(text))
    ELSE IF IsSpace(text[Len(text)]) THEN strip(SubSeq(text, 1, Len(text) - 1))
    ELSE text

\* text.split('\n'), from token i on: the lines, each a token sequence.
RECURSIVE split_lines(_, _, _)
split_lines(text, i, line) ==
    IF i > Len(text) THEN <<line>>
    ELSE IF text[i] = Newline
    THEN <<line>> \o split_lines(text, i + 1, <<>>)
    ELSE split_lines(text, i + 1, Append(line, text[i]))

\* "while cleaned_lines and not cleaned_lines[0]: pop(0)", and the same at
\* the end.
RECURSIVE drop_empty_ends(_)
drop_empty_ends(lines) ==
    IF lines = <<>> THEN <<>>
    ELSE IF Head(lines) = <<>> THEN drop_empty_ends(Tail(lines))
    ELSE IF lines[Len(lines)] = <<>>
    THEN drop_empty_ends(SubSeq(lines, 1, Len(lines) - 1))
    ELSE lines

\* '\n'.join(cleaned_lines)
RECURSIVE join_lines(_)
join_lines(lines) ==
    IF lines = <<>> THEN <<>>
    ELSE IF Len(lines) = 1 THEN lines[1]
    ELSE lines[1] \o <<Newline>> \o join_lines(Tail(lines))

\* The last index of the whitespace run starting at the line end i that is
\* itself a line end.
RECURSIVE LastNewlineOfRun(_, _, _)
LastNewlineOfRun(text, i, last) ==
    IF i > Len(text) \/ ~IsSpace(text[i]) THEN last
    ELSE LastNewlineOfRun(text, i + 1, IF text[i] = Newline THEN i ELSE last)

\* re.sub(r'\n\s*\n', '\n\n', text)
RECURSIVE normalize_blank_lines(_, _)
normalize_blank_lines(text, i) ==
    IF i > Len(text) THEN <<>>
    ELSE LET e == LastNewlineOfRun(text, i + 1, 0)
         IN  IF text[i] = Newline /\ e > 0
             THEN <<Newline, Newline>> \o normalize_blank_lines(text, e + 1)
             ELSE <<text[i]>> \o normalize_blank_lines(text, i + 1)

\* _final_cleanup
final_cleanup(text) ==
    LET lines == split_lines(text, 1, <<>>)
        cleaned_lines == [k \in 1..Len(lines) |-> strip(lines[k])]
    IN  normalize_blank_lines(join_lines(drop_empty_ends(cleaned_lines)), 1)

\* clean_text
clean_text(raw_text) ==
    IF raw_text = <<>> THEN <<>>
    ELSE strip(final_cleanup(clean_formatting(normalize_whitespace(
             remove_parsing_artifacts(fix_encoding_issues(raw_text))))))

IdleClean ==
    /\ rawText = <<>>
    /\ cleanedText = [done |-> TRUE, text |-> <<>>]
    /\ recleanedText = [done |-> TRUE, text |-> <<>>]

InitClean ==
    /\ rawText \in SeqsUpTo(Tokens, MaxTokens)
    /\ cleanedText = [done |-> FALSE, text |-> <<>>]
    /\ recleanedText = [done |-> FALSE, text |-> <<>>]

\* cleaned = clean_text(raw)
CleanText ==
    /\ ~cleanedText.done
    /\ cleanedText' = [done |-> TRUE, text |-> clean_text(rawText)]
    /\ UNCHANGED <<rawText, recleanedText>>
    /\ UNCHANGED <<scoreVars, segVars, sectVars, callVars, extractVars, docxVars, splitVars, fallbackVars, apiVars>>

\* A second pass over the cleaned text: clean_text(cleaned).
CleanAgain ==
    /\ cleanedText.done /\ ~recleanedText.done
    /\ recleanedText' = [done |-> TRUE, text |-> clean_text(cleanedText.text)]
    /\ UNCHANGED <<rawText, cleanedText>>
    /\ UNCHANGED <<scoreVars, segVars, sectVars, callVars, extractVars, docxVars, splitVars, fallbackVars, apiVars>>

(***************************************************************************)
(* Format parsers and DocumentParser: one extraction call                  *)
(*                                                                         *)
(* A call is followed step by step: every attempt of a backend is one      *)
(* step, whose outcome (the backend raises, returns no text, or returns    *)
(* text) is the environment's choice.  `attempts` is the history of the    *)
(* attempts made, in order.                                                *)
(***************************************************************************)
\* PDF backends, in the order __init__ registers them and parse_bytes tries
\* them.
Backends == <<"pdfplumber", "PyMuPDF", "PyPDF2">>
OCR == "OCR"

\* What a library call does on the given file.
Outcomes == {"raises", "empty", "text"}

\* The entry points a call starts at.
Entries == {"PDFParser.parse", "PDFParser.parse_bytes",
            "TXTParser.parse_bytes", "DOCXParser.parse_bytes",
            "DocumentParser.parse_bytes", "DocumentParser.parse",
            "ContractParser.process_contract",
            "ContractParser.process_contract_bytes"}

\* The entry points that run DocumentParser, and those of them that start
\* at ContractParser; the entry points that take the content as bytes.
DocEntries == {"DocumentParser.parse_bytes", "DocumentParser.parse",
               "ContractParser.process_contract",
               "ContractParser.process_contract_bytes"}
ContractEntries == {"ContractParser.process_contract",
                    "ContractParser.process_contract_bytes"}
BytesEntries == {"PDFParser.parse_bytes", "TXTParser.parse_bytes",
                 "DOCXParser.parse_bytes", "DocumentParser.parse_bytes",
                 "ContractParser.process_contract_bytes"}

\* What _detect_format makes of the file name.
Formats == {"pdf", "docx", "txt", "unsupported"}

\* HAS_PDFPLUMBER, HAS_PYMUPDF, HAS_PYPDF2, HAS_OCR: the libraries installed.
\* PDFParser.__init__ raises when no backend is.
Installations ==
    {has \in [{"pdfplumber", "PyMuPDF", "PyPDF2", OCR} -> BOOLEAN] :
        has["pdfplumber"] \/ has["PyMuPDF"] \/ has["PyPDF2"]}

\* The result dictionary a parser entry point starts with.
InitialResult ==
    [text |-> "", success |-> FALSE, has_errors |-> TRUE, errors |-> <<>>,
     method_used |-> "None"]

\* The dictionary a PDF backend (or the OCR pass) returns: it has no 'errors'
\* key; success is bool(text.strip()).
BackendResult(method, outcome) ==
    [text |-> IF outcome = "text" THEN "text" ELSE "",
     success |-> outcome = "text", has_errors |-> FALSE, errors |-> <<>>,
     method_used |-> method]

\* result.update(method_result): every key of the backend's dictionary
\* replaces the result's; 'errors' is not among them.
update(result, method_result) ==
    [result EXCEPT !.text = method_result.text,
                   !.success = method_result.success,
                   !.method_used = method_result.method_used]

\* result['errors'].append(message)
append_error(result, message) ==
    [result EXCEPT !.errors = Append(@, message)]

\* The index of the first installed backend at or after idx (4 when none).
RECURSIVE NextInstalled(_, _)
NextInstalled(has, idx) ==
    IF idx > Len(Backends) THEN idx
    ELSE IF has[Backends[idx]] THEN idx
    ELSE NextInstalled(has, idx + 1)

\* The outcomes OCR can have: _parse_with_ocr opens the file with fitz, a
\* name that is undefined (NameError) when PyMuPDF is not installed.
OcrOutcomes(has) == IF has["PyMuPDF"] THEN Outcomes ELSE {"raises"}

\* The result dictionary DocumentParser.parse_bytes starts with.
InitialDocResult ==
    [text |-> "", sections |-> "none", format |-> "", success |-> FALSE,
     errors |-> <<>>]

\* The result dictionary ContractParser.process_contract(_bytes) starts with.
InitialContractResult ==
    [raw_text |-> "", cleaned_text |-> "", sections |-> "none",
     success |-> FALSE, errors |-> <<>>]

IdleCall ==
    call = [entry |-> "none", format |-> "pdf", pc |-> "returned",
            has |-> [b \in {"pdfplumber", "PyMuPDF", "PyPDF2", OCR} |-> TRUE],
            has_parse_bytes |-> TRUE, tmp_file |-> "none",
            idx |-> 1, result |-> InitialResult, attempts |-> <<>>,
            parser_raised |-> FALSE, doc |-> InitialDocResult,
            contract |-> InitialContractResult, clean_count |-> 0]

\* The start of a call: the entry point, the file's format and the installed
\* libraries are given, and whether the parser registered in
\* DocumentParser.format_parsers for the format has a parse_bytes method (the
\* three parsers of the package have one).
InitCall ==
    \E entry \in Entries, format \in Formats, has \in Installations,
       has_parse_bytes \in BOOLEAN :
        /\ ~has_parse_bytes =>
               /\ entry \in DocEntries \cap BytesEntries
               /\ format # "unsupported"
        /\ entry = "PDFParser.parse" \/ entry = "PDFParser.parse_bytes"
               => format = "pdf"
        /\ entry = "TXTParser.parse_bytes" => format = "txt"
        /\ entry = "DOCXParser.parse_bytes" => format = "docx"
        /\ call = [entry |-> entry, format |-> format,
                   pc |-> CASE entry = "PDFParser.parse" -> "pdf_parse_loop"
                            [] entry = "PDFParser.parse_bytes" -> "pdf_parse_bytes"
                            [] entry = "TXTParser.parse_bytes" -> "txt_parse_bytes"
                            [] entry = "DOCXParser.parse_bytes" -> "docx_parse_bytes"
                            [] OTHER -> "doc_detect_format",
                   has |-> has, has_parse_bytes |-> has_parse_bytes,
                   tmp_file |-> "none", idx |-> 1, result |-> InitialResult,
                   attempts |-> <<>>, parser_raised |-> FALSE,
                   doc |-> InitialDocResult,
                   contract |-> InitialContractResult, clean_count |-> 0]

Attempt(method, outcome) == [method |-> method, outcome |-> outcome]

\* Where control goes when the format parser returns or raises: back to the
\* caller of the entry point, or into DocumentParser.parse(_bytes).
AfterParser(raised) ==
    IF call.entry \in DocEntries THEN "doc_after_parser"
    ELSE IF raised THEN "raised" ELSE "returned"

\* Where control goes when DocumentParser returns: back to the caller, or
\* into ContractParser.process_contract(_bytes).
AfterDoc ==
    IF call.entry \in ContractEntries THEN "contract_after_doc" ELSE "returned"

Unchanged == UNCHANGED <<scoreVars, segVars, sectVars, cleanVars, extractVars, docxVars, splitVars, fallbackVars, apiVars>>

\* PDFParser.parse: one iteration of "for method in self.extraction_methods".
PdfParseTryMethod ==
    /\ call.pc = "pdf_parse_loop"
    /\ NextInstalled(call.has, call.idx) <= Len(Backends)
    /\ LET i == NextInstalled(call.has, call.idx)
           method == Backends[i]
       IN  \E outcome \in Outcomes :
             call' = [call EXCEPT
                !.attempts = Append(@, Attempt(method, outcome)),
                !.idx = i + 1,
                !.result =
                    CASE outcome = "text" ->
                             update(@, BackendResult(method, outcome))
                      [] outcome = "raises" -> append_error(@, method)
                      [] OTHER -> @,
                !.pc = IF outcome = "text" THEN "pdf_parse_after_loop" ELSE @]
    /\ Unchanged

\* PDFParser.parse: the loop ends with every registered method tried.
PdfParseLoopEnd ==
    /\ call.pc = "pdf_parse_loop"
    /\ NextInstalled(call.has, call.idx) > Len(Backends)
    /\ call' = [call EXCEPT !.pc = "pdf_parse_after_loop"]
    /\ Unchanged

\* "if not result['success'] and HAS_OCR"
ocr_wanted_always(result, has) == has[OCR]
ocr_wanted(result, has) == ~result.success /\ has[OCR]

\* PDFParser.parse: the OCR fallback.
PdfParseOcr ==
    /\ call.pc = "pdf_parse_after_loop"
    /\ ocr_wanted(call.result, call.has)
    /\ \E outcome \in OcrOutcomes(call.has) :
         call' = [call EXCEPT
            !.attempts = Append(@, Attempt(OCR, outcome)),
            !.result =
                CASE outcome = "text" -> update(@, BackendResult(OCR, outcome))
                  [] outcome = "raises" -> append_error(@, "OCR failed")
                  [] OTHER -> @,
            !.pc = AfterParser(FALSE)]
    /\ Unchanged

\* PDFParser.parse: "return result" without OCR.
PdfParseReturn ==
    /\ call.pc = "pdf_parse_after_loop"
    /\ ~ocr_wanted(call.result, call.has)
    /\ call' = [call EXCEPT !.pc = AfterParser(FALSE)]
    /\ Unchanged

\* PDFParser.parse_bytes: what "result = backend(...)" leaves in result.
bytes_result(result, method, outcome) == BackendResult(method, outcome)

\* PDFParser.parse_bytes: one of the three "if HAS_...: try: ..." blocks.  A
\* backend that raises leaves result as it was, and the handler appends to
\* result['errors']: a KeyError when result is an earlier backend's
\* dictionary.
PdfParseBytesTry ==
    /\ call.pc = "pdf_parse_bytes"
    /\ NextInstalled(call.has, call.idx) <= Len(Backends)
    /\ LET i == NextInstalled(call.has, call.idx)
           method == Backends[i]
       IN  \E outcome \in Outcomes :
             call' = [call EXCEPT
                !.attempts = Append(@, Attempt(method, outcome)),
                !.idx = i + 1,
                !.result =
                    CASE outcome = "raises" /\ @.has_errors ->
                             append_error(@, method)
                      [] outcome = "raises" -> @
                      [] OTHER -> bytes_result(@, method, outcome),
                !.parser_raised = outcome = "raises" /\ ~call.result.has_errors,
                !.pc =
                    CASE outcome = "text" -> AfterParser(FALSE)
                      [] outcome = "raises" /\ ~call.result.has_errors ->
                             AfterParser(TRUE)
                      [] OTHER -> @]
    /\ Unchanged

\* PDFParser.parse_bytes: the final "return result".
PdfParseBytesReturn ==
    /\ call.pc = "pdf_parse_bytes"
    /\ NextInstalled(call.has, call.idx) > Len(Backends)
    /\ call' = [call EXCEPT !.pc = AfterParser(FALSE)]
    /\ Unchanged

\* TXTParser.parse_bytes and DOCXParser.parse_bytes: the body is one try
\* block; on success the text is whatever the file holds, empty or not.
simple_parse_bytes(method, message, outcome) ==
    [call EXCEPT
        !.attempts = Append(@, Attempt(method, outcome)),
        !.result =
            IF outcome = "raises" THEN append_error(@, message)
            ELSE [@ EXCEPT !.success = TRUE,
                           !.text = IF outcome = "text" THEN "text" ELSE ""],
        !.pc = AfterParser(FALSE)]

TxtParseBytes ==
    /\ call.pc = "txt_parse_bytes"
    /\ \E outcome \in Outcomes :
         call' = simple_parse_bytes("decode", "Error parsing text file", outcome)
    /\ Unchanged

DocxParseBytes ==
    /\ call.pc = "docx_parse_bytes"
    /\ \E outcome \in Outcomes :
         call' = simple_parse_bytes("python-docx", "Error parsing DOCX", outcome)
    /\ Unchanged

\* TXTParser.parse and DOCXParser.parse: the same try block on a file path.
TxtParse ==
    /\ call.pc = "txt_parse"
    /\ \E outcome \in Outcomes :
         call' = simple_parse_bytes("read", "Error parsing text file", outcome)
    /\ Unchanged

DocxParse ==
    /\ call.pc = "docx_parse"
    /\ \E outcome \in Outcomes :
         call' = simple_parse_bytes("python-docx", "Error parsing DOCX", outcome)
    /\ Unchanged

\* DocumentParser.parse_bytes, the branch for a parser without parse_bytes:
\* the content is written to a NamedTemporaryFile(delete=False), the
\* parser's parse runs on it and os.unlink follows; an exception of parse
\* leaves the with block before os.unlink.
DocParseTempFile ==
    /\ call.pc = "doc_temp_file"
    /\ \E outcome \in Outcomes \cup {"failure"} :
         call' = [call EXCEPT
            !.attempts = Append(@, Attempt("parse", outcome)),
            !.tmp_file = IF outcome = "raises" THEN "exists" ELSE "deleted",
            !.parser_raised = outcome = "raises",
            !.result =
                CASE outcome = "raises" -> @
                  [] outcome = "failure" -> append_error(@, "parse failed")
                  [] OTHER -> [@ EXCEPT !.success = TRUE,
                                        !.text = IF outcome = "text"
                                                 THEN "text" ELSE ""],
            !.pc = "doc_after_parser"]
    /\ Unchanged

\* DocumentParser.parse and parse_bytes: _detect_format and the choice of
\* the parser; the ValueError of an unsupported format is caught by the
\* except clause.
DocDetectFormat ==
    /\ call.pc = "doc_detect_format"
    /\ call' = [call EXCEPT
          !.doc = IF call.format = "unsupported"
                  THEN [@ EXCEPT !.errors = Append(@,
                            "Error parsing document: Unsupported file format")]
                  ELSE [@ EXCEPT !.format = call.format],
          !.pc = CASE call.format = "unsupported" -> AfterDoc
                   [] ~call.has_parse_bytes -> "doc_temp_file"
                   [] call.entry \in BytesEntries ->
                          CASE call.format = "pdf" -> "pdf_parse_bytes"
                            [] call.format = "docx" -> "docx_parse_bytes"
                            [] OTHER -> "txt_parse_bytes"
                   [] OTHER ->
                          CASE call.format = "pdf" -> "pdf_parse_loop"
                            [] call.format = "docx" -> "docx_parse"
                            [] OTHER -> "txt_parse"]
    /\ Unchanged

\* The text clean_text makes of an extracted text.
cleaned(text) == IF text = "" THEN "" ELSE "cleaned text"

\* DocumentParser.parse and parse_bytes, after the parser's call: a raised
\* exception is caught and recorded; a failure copies
\* parsed_data.get('errors', []); a success is cleaned and split into
\* sections.
DocAfterParser ==
    /\ call.pc = "doc_after_parser"
    /\ call' = [call EXCEPT
          !.doc =
              CASE call.parser_raised ->
                       [@ EXCEPT !.errors = Append(@,
                            IF call.tmp_file = "exists"
                            THEN "Error parsing document: parse raised"
                            ELSE "Error parsing document: 'errors'")]
                [] ~call.result.success ->
                       [@ EXCEPT !.errors = @ \o
                            (IF call.result.has_errors
                             THEN call.result.errors ELSE <<>>)]
                [] OTHER ->
                       [@ EXCEPT !.text = cleaned(call.result.text),
                                 !.sections = IF call.result.text = ""
                                              THEN "none" ELSE "detected",
                                 !.success = TRUE],
          !.clean_count = IF ~call.parser_raised /\ call.result.success
                          THEN @ + 1 ELSE @,
          !.pc = AfterDoc]
    /\ Unchanged

\* ContractParser.process_contract and process_contract_bytes, after
\* document_parser.parse(_bytes): a failure copies the parsing errors; a
\* success is cleaned (again) and split into sections (again).
ContractAfterDoc ==
    /\ call.pc = "contract_after_doc"
    /\ call' = [call EXCEPT
          !.contract =
              IF ~call.doc.success
              THEN [@ EXCEPT !.errors = @ \o call.doc.errors]
              ELSE [@ EXCEPT !.raw_text = call.doc.text,
                             !.cleaned_text = cleaned(call.doc.text),
                             !.sections = IF call.doc.text = ""
                                          THEN "none" ELSE "detected",
                             !.success = TRUE],
          !.clean_count = IF call.doc.success THEN @ + 1 ELSE @,
          !.pc = "returned"]
    /\ Unchanged

(***************************************************************************)
(* ClauseExtractor.extract_clauses                                         *)
(*                                                                         *)
(* The text is a sequence of pieces.  A piece is a stretch of text up to   *)
(* and including a full stop; the full stop either ends a sentence or      *)
(* stands inside one (as in "3.5 percent").  The pieces hold none of the   *)
(* abbreviations the regex splitter knows.                                 *)
(***************************************************************************)
MaxPieces == 3
MaxCalls == 2

\* word: the vocabulary word of the piece ("" for none); len: the number of
\* characters of the stripped piece ("Terminate." has 10); dot: what the
\* full stop is.
Piece(word, len, dot) == [word |-> word, len |-> len, dot |-> dot]

Pieces ==
    {Piece("terminate", 10, "end"), Piece("terminate", 11, "end"),
     Piece("terminate", 11, "inner"), Piece("notice", 11, "end"),
     Piece("draft", 11, "end"), Piece("", 11, "end")}

\* A sentence: its words and its stripped length.
words_of(piece) == IF piece.word = "" THEN <<>> ELSE <<piece.word>>

\* sent_tokenize(text): the tokenizer splits where a sentence ends.
RECURSIVE sent_tokenize(_)
sent_tokenize(text) ==
    IF text = <<>> THEN <<>>
    ELSE LET rest == sent_tokenize(Tail(text))
             first == [words |-> words_of(Head(text)), len |-> Head(text).len]
         IN  IF Head(text).dot = "inner" /\ rest # <<>>
             THEN <<[words |-> first.words \o Head(rest).words,
                     len |-> first.len + Head(rest).len]>> \o Tail(rest)
             ELSE <<first>> \o rest

\* _regex_sentence_split up to combined_sentences: re.split on '[.!?]+'
\* makes one sentence of every piece.
regex_combined_sentences(text) ==
    [i \in 1..Len(text) |-> [words |-> words_of(text[i]), len |-> text[i].len]]

\* _split_into_sentences: the tokenizer when NLTK_AVAILABLE, else the regex
\* splitter; both keep the sentences of more than 10 characters.
candidate_sentences(text, nltk_available) ==
    IF nltk_available THEN sent_tokenize(text)
    ELSE regex_combined_sentences(text)

\* The words of a segment: those of its sentences, joined.
RECURSIVE segment_words(_, _)
segment_words(candidates, srcs) ==
    IF srcs = <<>> THEN <<>>
    ELSE candidates[Head(srcs)].words \o segment_words(candidates, Tail(srcs))

\* "definition.get('minimum_confidence_threshold',
\*  self.global_config.get('default_confidence_threshold', 0.5))", in tenths.
DefaultConfidenceThreshold == 5
min_threshold(definition, global_config) ==
    Get(definition, "minimum_confidence_threshold",
        Get(global_config, "default_confidence_threshold",
            DefaultConfidenceThreshold))

\* "if confidence >= min_threshold"
meets_threshold_strictly(confidence, threshold) == confidence > threshold
meets_threshold(confidence, threshold) == confidence >= threshold

\* The candidates one segment adds: the inner loop over the clause types,
\* in the order of the configuration.
RECURSIVE clauses_of_segment(_, _, _, _)
clauses_of_segment(segment, text, types, ex) ==
    IF types = <<>> THEN <<>>
    ELSE LET clause_type == Head(types)
             definition == ex.clause_definitions[clause_type]
             confidence ==
                 calculate_confidence(text, clause_type, definition,
                                      ex.clause_definitions,
                                      ex.compiled_patterns,
                                      ex.default_case_sensitive)
         IN  (IF meets_threshold(confidence,
                                 min_threshold(definition, ex.global_config))
              THEN <<[clause_type |-> clause_type,
                      segment_id |-> segment.segment_id,
                      text |-> text,
                      confidence |-> confidence]>>
              ELSE <<>>)
             \o clauses_of_segment(segment, text, Tail(types), ex)

\* list.sort(key=confidence, reverse=True): stable, so equal confidences
\* keep their order.  insert_clause puts c behind every clause that is not
\* smaller.
RECURSIVE insert_clause(_, _)
insert_clause(sorted, c) ==
    IF sorted = <<>> THEN <<c>>
    ELSE IF Head(sorted).confidence >= c.confidence
         THEN <<Head(sorted)>> \o insert_clause(Tail(sorted), c)
         ELSE <<c>> \o sorted

RECURSIVE sort_by_confidence(_, _)
sort_by_confidence(clauses, sorted) ==
    IF clauses = <<>> THEN sorted
    ELSE sort_by_confidence(Tail(clauses), insert_clause(sorted, Head(clauses)))

\* extract_clauses(text): segment with the defaults (sliding windows up to
\* 3), score every segment against every clause type, keep, sort.
extract_clauses(text, ex, nltk_available) ==
    LET candidates == candidate_sentences(text, nltk_available)
        segs == segment_text([i \in 1..Len(candidates) |-> candidates[i].len],
                             TRUE, WindowCap)
        RECURSIVE collect(_)
        collect(i) ==
            IF i > Len(segs) THEN <<>>
            ELSE clauses_of_segment(segs[i],
                                    segment_words(candidates, segs[i].text),
                                    ex.clause_types, ex)
                 \o collect(i + 1)
    IN  sort_by_confidence(collect(1), <<>>)

\* ---- the configuration files the extractor is constructed from ----
\* The clause types, in the order of the file.
ClauseTypeOrder == <<"termination", "confidentiality">>

WithThreshold(d, threshold) ==
    [k \in DOMAIN d \cup {"minimum_confidence_threshold"} |->
        IF k = "minimum_confidence_threshold" THEN threshold ELSE d[k]]

\* A termination definition with default weights.
TerminationDefinition(negative_keywords) ==
    [primary_keywords |-> <<"terminate">>, secondary_keywords |-> <<>>,
     negative_keywords |-> negative_keywords, patterns |-> <<>>,
     context_clues |-> <<>>, confidence_weights |-> <<>>]

\* json.load(file): global_config with or without a default threshold, the
\* termination type with or without a threshold and negative keywords.
ConfigFiles ==
    {[global_config |-> g,
      clause_definitions |->
          [t \in ClauseTypes |->
              IF t = "termination" THEN d ELSE ConfidentialityDefinition]] :
        g \in {<<>>, [default_confidence_threshold |-> 4]},
        d \in {TerminationDefinition(nk) : nk \in {<<>>, <<"draft">>}}
              \cup {WithThreshold(TerminationDefinition(nk), 8) :
                        nk \in {<<>>, <<"draft">>}}}

\* The attributes __init__ sets before it loads anything.
NewExtractor ==
    [ready |-> FALSE, global_config |-> <<>>, clause_definitions |-> <<>>,
     compiled_patterns |-> <<>>, clause_types |-> <<>>,
     default_case_sensitive |-> FALSE,
     default_confidence_threshold |-> DefaultConfidenceThreshold]

\* _load_clause_definitions and _setup_preprocessing on the file's content.
loaded_extractor(config) ==
    LET default_cs ==
            Get(config.global_config, "default_case_sensitive", FALSE)
    IN  [ready |-> TRUE,
         global_config |-> config.global_config,
         clause_definitions |-> setup_preprocessing(config.clause_definitions),
         compiled_patterns |->
             setup_compiled_patterns(config.clause_definitions, default_cs),
         clause_types |-> ClauseTypeOrder,
         default_case_sensitive |-> default_cs,
         default_confidence_threshold |->
             Get(config.global_config, "default_confidence_threshold",
                 DefaultConfidenceThreshold)]

\* What nltk.data.find('tokenizers/punkt') and nltk.download do during a
\* construction.
PunktOutcomes == {"found", "downloaded", "download raises"}

\* _initialize_nltk: the global is cleared when the download raises.
initialize_nltk(nltk_available, punkt) ==
    nltk_available /\ punkt # "download raises"

\* What a call of extract_clauses leaves in the extractor's tables:
\* match_patterns compiles the {"regex": ...} objects into locals and
\* _calculate_confidence reads compiled_patterns with get; nothing is
\* stored.
tables_after_extract_clauses_caching(ex, text) ==
    LET compiled == ex.compiled_patterns
    IN  [ex EXCEPT !.compiled_patterns =
            IF text = <<>> THEN compiled
            ELSE [t \in DOMAIN compiled |->
                    [compiled[t] EXCEPT !.secondary = compiled[t].primary]]]
tables_after_extract_clauses(ex, text) == ex

IdleExtract ==
    /\ NLTK_AVAILABLE = TRUE
    /\ config_data = <<>>
    /\ extractor = NewExtractor
    /\ contract_text = <<>>
    /\ extracted = <<>>

\* The process has imported clause_extractor (with or without nltk) and
\* __init__ of the shared extractor is about to load the file.
InitExtract ==
    /\ NLTK_AVAILABLE \in BOOLEAN
    /\ config_data \in ConfigFiles
    /\ extractor = NewExtractor
    /\ contract_text \in SeqsUpTo(Pieces, MaxPieces)
    /\ extracted = <<>>

UnchangedByExtract ==
    UNCHANGED <<scoreVars, segVars, sectVars, cleanVars, callVars, docxVars, splitVars, fallbackVars, apiVars>>

\* ClauseExtractor.__init__ of the shared extractor.
ConstructExtractor ==
    /\ ~extractor.ready
    /\ \E punkt \in PunktOutcomes :
         NLTK_AVAILABLE' = initialize_nltk(NLTK_AVAILABLE, punkt)
    /\ extractor' = loaded_extractor(config_data)
    /\ UNCHANGED <<config_data, contract_text, extracted>>
    /\ UnchangedByExtract

\* ClauseExtractor.__init__ of another extractor of the process: of its
\* effects only the one on the module global is kept.
ConstructAnotherExtractor ==
    /\ \E punkt \in PunktOutcomes :
         NLTK_AVAILABLE' = initialize_nltk(NLTK_AVAILABLE, punkt)
    /\ UNCHANGED <<config_data, extractor, contract_text, extracted>>
    /\ UnchangedByExtract

\* One call extractor.extract_clauses(contract_text).
ExtractClauses ==
    /\ extractor.ready
    /\ Len(extracted) < MaxCalls
    /\ extracted' = Append(extracted,
                           [nltk_available |-> NLTK_AVAILABLE,
                            clauses |-> extract_clauses(contract_text,
                                                        extractor,
                                                        NLTK_AVAILABLE)])
    /\ extractor' = tables_after_extract_clauses(extractor, contract_text)
    /\ UNCHANGED <<NLTK_AVAILABLE, config_data, contract_text>>
    /\ UnchangedByExtract

(***************************************************************************)
(* DOCXParser._extract_content                                             *)
(*                                                                         *)
(* A style name is a sequence of tokens whose last token is the last       *)
(* character of the name ("Heading 2" is "Heading", " ", "2").             *)
(***************************************************************************)
MaxParagraphs == 2

\* Paragraph styles: body text, built-in headings, and a style of the
\* document's own whose name starts with "Heading".
StyleNames ==
    {<<"Norma", "l">>, <<"Heading", " ", "1">>, <<"Heading", " ", "2">>,
     <<"Heading", " ", "9">>, <<"Heading", " ", "Appendi", "x">>}

\* Paragraph texts: empty, blank, a word.
ParagraphTexts == {"", " ", "Term"}

Paragraphs == [style : StyleNames, text : ParagraphTexts]

\* para.style.name.startswith('Heading')
starts_with_heading(name) == name[1] = "Heading"

\* int(para.style.name[-1]): the value of a decimal digit, a ValueError (-1)
\* for any other character.
Digits == <<"1", "2", "3", "4", "5", "6", "7", "8", "9">>
int_of_last_char(name) ==
    LET last == name[Len(name)]
    IN  IF last = "0" THEN 0
        ELSE IF \E d \in 1..Len(Digits) : Digits[d] = last
        THEN CHOOSE d \in 1..Len(Digits) : Digits[d] = last
        ELSE -1

\* '#' * n
hashes(n) == [k \in 1..n |-> "#"]

\* The part one paragraph appends to text_parts (none for a blank one);
\* raises is set when int() raises.
heading_marks(name) == hashes(int_of_last_char(name))

paragraph_part(para) ==
    IF para.text \in {"", " "} THEN [raises |-> FALSE, parts |-> <<>>]
    ELSE IF starts_with_heading(para.style)
    THEN IF int_of_last_char(para.style) < 0
         THEN [raises |-> TRUE, parts |-> <<>>]
         ELSE [raises |-> FALSE,
               parts |-> <<<<"\n">> \o heading_marks(para.style)
                           \o <<" ", para.text, "\n">>>>]
    ELSE [raises |-> FALSE, parts |-> <<<<para.text>>>>]

\* The loop over doc.paragraphs.
RECURSIVE paragraph_parts(_)
paragraph_parts(paragraphs) ==
    IF paragraphs = <<>> THEN [raises |-> FALSE, parts |-> <<>>]
    ELSE LET first == paragraph_part(Head(paragraphs))
             rest == paragraph_parts(Tail(paragraphs))
         IN  IF first.raises THEN first
             ELSE [raises |-> rest.raises, parts |-> first.parts \o rest.parts]

\* The loop over doc.tables and the headers and footers.
table_parts(tables) ==
    [k \in 1..tables |-> <<"\n", "--- Table ---", "\n">>]

headers_footers_part(header) ==
    IF header = "" \/ header = " " THEN <<>>
    ELSE <<<<"\n", "--- Headers/Footers ---", "\n", "Header: ", header>>>>

\* "\n".join(text_parts)
RECURSIVE join_parts(_)
join_parts(parts) ==
    IF parts = <<>> THEN <<>>
    ELSE IF Len(parts) = 1 THEN Head(parts)
    ELSE Head(parts) \o <<"\n">> \o join_parts(Tail(parts))

\* DOCXParser.parse_bytes on an opened document: _extract_content inside
\* the try block.
docx_parse_bytes(doc) ==
    LET body == paragraph_parts(doc.paragraphs)
    IN  IF body.raises
        THEN [done |-> TRUE, success |-> FALSE, text |-> <<>>,
              errors |-> <<"Error parsing DOCX: invalid literal for int()">>]
        ELSE [done |-> TRUE, success |-> TRUE,
              text |-> join_parts(body.parts \o table_parts(doc.tables)
                                  \o headers_footers_part(doc.header)),
              errors |-> <<>>]

DocxNotParsed ==
    [done |-> FALSE, success |-> FALSE, text |-> <<>>, errors |-> <<>>]

IdleDocx ==
    /\ docx_document = [paragraphs |-> <<>>, tables |-> 0, header |-> ""]
    /\ docx_result = DocxNotParsed

InitDocx ==
    /\ docx_document \in [paragraphs : SeqsUpTo(Paragraphs, MaxParagraphs),
                          tables : 0..1, header : {"", "Draft"}]
    /\ docx_result = DocxNotParsed

\* One call of DOCXParser.parse_bytes.
DocxExtractContent ==
    /\ ~docx_result.done
    /\ docx_result' = docx_parse_bytes(docx_document)
    /\ UNCHANGED docx_document
    /\ UNCHANGED <<scoreVars, segVars, sectVars, cleanVars, callVars, extractVars, splitVars, fallbackVars, apiVars>>

(***************************************************************************)
(* ClauseExtractor._regex_sentence_split                                   *)
(*                                                                         *)
(* re.split(r'([.!?]+)', text) cuts the text into chunks, each a run of    *)
(* text followed by its run of end marks, and the text left after the last *)
(* end mark.  A chunk is given by the length of its stripped text with its *)
(* end marks and by whether the abbreviation pattern matches it: the       *)
(* pattern ends in a full stop, so it matches when the chunk ends with one *)
(* of the listed abbreviations and a full stop ("Payment to Acme Inc.").   *)
(***************************************************************************)
MaxChunks == 3

Chunk(len, abbr) == [len |-> len, abbr |-> abbr]

\* "Dr.", "Payment to Acme Inc.", a chunk of 55 characters that ends in
\* "Inc.", "Notice is given today.", "is due."
Chunks ==
    {Chunk(3, TRUE), Chunk(20, TRUE), Chunk(55, TRUE),
     Chunk(22, FALSE), Chunk(7, FALSE)}

\* The stripped lengths of the text after the last end mark: none, " is due".
TailLengths == {0, 6}

\* "re.search(abbreviations, sentence) and len(sentence) < 50"
AbbreviationMaxLen == 50
looks_like_abbreviation(chunk) == chunk.abbr /\ chunk.len < AbbreviationMaxLen

\* A sentence being built: the chunks it is made of, by position (the text
\* after the last end mark has position Len(chunks) + 1), and its length.
\* "combined_sentences[-1] += ' ' + sentence"
append_to_last(combined_sentences, src, len) ==
    [combined_sentences EXCEPT ![Len(combined_sentences)] =
        [src |-> @.src \o <<src>>, len |-> @.len + 1 + len]]

\* The loop "for i in range(0, len(sentences) - 1, 2)", from chunk i on.
RECURSIVE recombine(_, _, _)
recombine(chunks, i, combined_sentences) ==
    IF i > Len(chunks) THEN combined_sentences
    ELSE recombine(chunks, i + 1,
            IF looks_like_abbreviation(chunks[i]) /\ combined_sentences # <<>>
            THEN append_to_last(combined_sentences, i, chunks[i].len)
            ELSE Append(combined_sentences,
                        [src |-> <<i>>, len |-> chunks[i].len]))

\* "Handle the last element if odd number of splits": re.split with one
\* group always returns an odd number of elements.
with_last_sentence(chunks, tail_len, combined_sentences) ==
    IF tail_len = 0 THEN combined_sentences
    ELSE IF combined_sentences # <<>>
    THEN append_to_last(combined_sentences, Len(chunks) + 1, tail_len)
    ELSE <<[src |-> <<Len(chunks) + 1>>, len |-> tail_len]>>

\* "if len(sentence) > 10"
RECURSIVE final_sentences(_)
final_sentences(combined_sentences) ==
    IF combined_sentences = <<>> THEN <<>>
    ELSE (IF Head(combined_sentences).len > MinSentenceLength
          THEN <<Head(combined_sentences)>> ELSE <<>>)
         \o final_sentences(Tail(combined_sentences))

regex_sentence_split(text) ==
    final_sentences(
        with_last_sentence(text.chunks, text.tail_len,
                           recombine(text.chunks, 1, <<>>)))

IdleSplit ==
    /\ split_input = [chunks |-> <<>>, tail_len |-> 0]
    /\ split_output = [done |-> TRUE, list |-> <<>>]

InitSplit ==
    /\ split_input \in [chunks : SeqsUpTo(Chunks, MaxChunks),
                        tail_len : TailLengths]
    /\ split_output = [done |-> FALSE, list |-> <<>>]

\* One call of _regex_sentence_split.
RegexSentenceSplit ==
    /\ ~split_output.done
    /\ split_output' = [done |-> TRUE, list |-> regex_sentence_split(split_input)]
    /\ UNCHANGED split_input
    /\ UNCHANGED <<scoreVars, segVars, sectVars, cleanVars, callVars, extractVars, docxVars, fallbackVars, apiVars>>

(***************************************************************************)
(* contract_analyzer.analyze_contract_with_fallback                        *)
(*                                                                         *)
(* The contract text is a sequence of blocks joined by "\n\n"; a block of  *)
(* this model is one line of fewer than 1000 characters.  An excerpt is    *)
(* the run of blocks from..to it is made of: text[start_pos:end_pos]       *)
(* always starts and ends at a block separator or at an end of the text.   *)
(***************************************************************************)
MaxBlocks == 3

Blocks ==
    {"Either party may terminate this agreement.",
     "Delivery is due within 30 days.",
     "The fees are payable monthly.",
     "The laws of Kenya apply.",
     "Each party acts lawfully.",
     "The parties agree.",
     "3. General"}

\* The keywords and identifiers of the analysis that are substrings of
\* block.lower().
Occurrences(block) ==
    CASE block = "Either party may terminate this agreement." -> {"terminate", "term"}
      [] block = "Delivery is due within 30 days." -> {"3"}
      [] block = "The fees are payable monthly." -> {"fees"}
      [] block = "The laws of Kenya apply." -> {"laws of", "law"}
      [] block = "Each party acts lawfully." -> {"law"}
      [] block = "The parties agree." -> {}
      [] block = "3. General" -> {"3"}

\* The block starts with the identifier and a full stop.
StartsWithIdentifier(block, iden) == block = "3. General" /\ iden = "3"

FallbackClauseTypes ==
    <<"termination_clause", "confidentiality_clause", "payment_terms",
      "governing_law", "limitation_of_liability">>

\* The keyword lists handed to extract_clause_by_keywords.
FallbackKeywords ==
    [termination_clause |->
        <<"termination", "terminate", "term and termination", "cancellation",
          "cancel this agreement", "early termination", "right to terminate",
          "terminating this agreement", "effect of termination",
          "agreement shall terminate", "end of term", "expiration",
          "canceling">>,
     confidentiality_clause |->
        <<"confidentiality", "confidential information", "non-disclosure">>,
     payment_terms |->
        <<"payment terms", "payment schedule", "fees", "compensation",
          "invoice">>,
     governing_law |->
        <<"governing law", "jurisdiction", "applicable law", "laws of",
          "governed by">>,
     limitation_of_liability |->
        <<"limitation of liability", "limited liability",
          "limitation on liability", "not be liable">>]

\* section_numbers
section_numbers ==
    [termination_clause |-> <<"3", "termination", "term">>,
     confidentiality_clause |-> <<"4", "confidential", "confid">>,
     payment_terms |-> <<"2", "payment", "compensation", "fees">>,
     governing_law |-> <<"5", "law", "govern">>,
     limitation_of_liability |-> <<"6", "liab", "limit">>]

\* "Not found", and the excerpt made of blocks from..to.
NotFound == [from |-> 0, to |-> 0]
Excerpt(from, to) == [from |-> from, to |-> to]

\* The least element of a non-empty set of numbers.
Least(S) == CHOOSE x \in S : \A y \in S : x <= y

\* text_lower.find(word): the first block the word occurs in, 0 for -1.
find_block(text, word) ==
    LET hits == {b \in 1..Len(text) : word \in Occurrences(text[b])}
    IN  IF hits = {} THEN 0 ELSE Least(hits)

\* contract_lower.find("\n" + iden + "."): the first block after the first
\* that starts with the identifier and a full stop, 0 for -1.
find_heading(text, iden) ==
    LET hits == {b \in 2..Len(text) : StartsWithIdentifier(text[b], iden)}
    IN  IF hits = {} THEN 0 ELSE Least(hits)

\* extract_clause_by_keywords: the first keyword of the list that occurs
\* anywhere decides; the excerpt runs from the blank line before its first
\* occurrence to the blank line after it.
extract_clause_by_keywords(text, keywords) ==
    LET found == {k \in 1..Len(keywords) : find_block(text, keywords[k]) # 0}
    IN  IF found = {} THEN NotFound
        ELSE LET b == find_block(text, keywords[Least(found)])
             IN  Excerpt(b, b)

\* The section number-based extraction for one identifier: idx is the match
\* of "\n" + iden + ".", else of iden; a match of the first is the second
\* newline of the separator, so the search for "\n\n" before it finds the
\* separator of the block before.
excerpt_by_identifier(text, iden) ==
    LET h == find_heading(text, iden)
        b == find_block(text, iden)
    IN  IF h # 0 THEN Excerpt(IF h >= 3 THEN h - 1 ELSE h, h)
        ELSE IF b # 0 THEN Excerpt(b, b)
        ELSE NotFound

\* "for iden in identifiers: ... break", from identifier i on.
RECURSIVE section_number_fallback(_, _, _)
section_number_fallback(text, identifiers, i) ==
    IF i > Len(identifiers) THEN NotFound
    ELSE LET e == excerpt_by_identifier(text, identifiers[i])
         IN  IF e # NotFound THEN e
             ELSE section_number_fallback(text, identifiers, i + 1)

\* analyze_contract_with_fallback
analyze_contract_with_fallback(text) ==
    [t \in Range(FallbackClauseTypes) |->
        LET by_keywords == extract_clause_by_keywords(text, FallbackKeywords[t])
        IN  IF by_keywords = NotFound
            THEN section_number_fallback(text, section_numbers[t], 1)
            ELSE by_keywords]

IdleFallback ==
    /\ fallback_text = <<>>
    /\ fallback_results = [done |-> TRUE, results |-> <<>>]

InitFallback ==
    /\ fallback_text \in SeqsUpTo(Blocks, MaxBlocks)
    /\ fallback_results = [done |-> FALSE, results |-> <<>>]

\* One call of analyze_contract_with_fallback.
AnalyzeContractWithFallback ==
    /\ ~fallback_results.done
    /\ fallback_results' =
           [done |-> TRUE,
            results |-> analyze_contract_with_fallback(fallback_text)]
    /\ UNCHANGED fallback_text
    /\ UNCHANGED <<scoreVars, segVars, sectVars, cleanVars, callVars, extractVars, docxVars, splitVars, apiVars>>

(***************************************************************************)
(* api/v1/contracts.py: analyze_contract                                   *)
(*                                                                         *)
(* The contracts table holds for each contract its owner and the stored    *)
(* analysis_results; a request names a contract and comes from a user;     *)
(* analyze_contract_text answers with the dictionary of the five clauses   *)
(* or with {"error": ...}.                                                 *)
(***************************************************************************)
MaxRequests == 2

Users == {"alice", "bob"}
ContractIds == 1..2

\* What analyze_contract_text returns: two dictionaries of five clauses, and
\* the error dictionary.
AnalysisResults == {"clauses A", "clauses B", "error"}

\* The fields of the ContractAnalysis schema, all required, all ClauseResult.
ContractAnalysisFields ==
    {"termination", "confidentiality", "payment_terms", "governing_law",
     "liability"}

\* The keyword arguments the endpoint builds ContractAnalysis with: strings
\* taken from the dictionary.
analysis_kwargs ==
    [f \in {"termination_clause", "confidentiality_clause", "payment_terms",
            "governing_law", "limitation_of_liability"} |-> "str"]

\* The fields of the ContractAnalysisResponse schema, all required, and the
\* keyword arguments the endpoint builds it with.
ResponseFields == {"contract_id", "analysis", "engine"}
response_kwargs == {"contract_id", "analysis"}

\* pydantic's validation of a BaseModel constructor: every required field is
\* given, with a value of its type.
contract_analysis_validates(kwargs) ==
    \A f \in ContractAnalysisFields :
        f \in DOMAIN kwargs /\ kwargs[f] = "ClauseResult"

response_validates(given) == ResponseFields \subseteq given

\* crud.update_contract_analysis: the row of the contract gets the results.
update_contract_analysis(table, contract_id, analysis_results) ==
    IF contract_id \in DOMAIN table
    THEN [table EXCEPT ![contract_id].analysis_results = analysis_results]
    ELSE table

HTTP_200 == 200
HTTP_403 == 403
HTTP_404 == 404
HTTP_500 == 500

Response(seq, contract_id, user, analysis_results, status_code) ==
    [seq |-> seq, contract_id |-> contract_id, user |-> user,
     analysis_results |-> analysis_results, status_code |-> status_code]

IdleApi ==
    /\ contracts = <<>>
    /\ api_response = Response(0, 0, "", "", 0)

\* One or two contracts are stored, none analysed yet.
InitApi ==
    /\ \E n \in 1..2 :
         contracts \in [1..n -> [user_id : Users, analysis_results : {"none"}]]
    /\ api_response = Response(0, 0, "", "", 0)

\* The handler analyze_contract, for one request: 404 and 403 are raised
\* before the try block; inside it the HTTPException of an "error" result
\* and every exception of the schema constructors end in the handler of
\* line 129, which answers 500; update_contract_analysis has then run or
\* not, as the statements stand.
AnalyzeContract(contract_id, current_user, analysis_results) ==
    /\ api_response.seq < MaxRequests
    /\ LET found == contract_id \in DOMAIN contracts
           owned == found /\ contracts[contract_id].user_id = current_user
           failed == analysis_results = "error"
           updated == owned /\ ~failed
           answered ==
               /\ updated
               /\ contract_analysis_validates(analysis_kwargs)
               /\ response_validates(response_kwargs)
       IN  /\ contracts' =
                  IF updated
                  THEN update_contract_analysis(contracts, contract_id,
                                                analysis_results)
                  ELSE contracts
           /\ api_response' =
                  Response(api_response.seq + 1, contract_id, current_user,
                           IF owned THEN analysis_results ELSE "",
                           CASE ~found -> HTTP_404
                             [] found /\ ~owned -> HTTP_403
                             [] owned /\ answered -> HTTP_200
                             [] OTHER -> HTTP_500)
    /\ UNCHANGED <<scoreVars, segVars, sectVars, cleanVars, callVars, extractVars, docxVars, splitVars, fallbackVars>>

(***************************************************************************)
(* Specifications                                                          *)
(***************************************************************************)

NextSeg == SegmentText
SegStart == InitSeg /\ IdleScore /\ IdleSect /\ IdleClean /\ IdleCall /\ IdleExtract /\ IdleDocx /\ IdleSplit /\ IdleFallback /\ IdleApi
SpecSeg == SegStart /\ [][NextSeg]_vars

NextSect == DetectSections \/ ValidateContractStructure
SectStart == InitSect /\ IdleScore /\ IdleSeg /\ IdleClean /\ IdleCall /\ IdleExtract /\ IdleDocx /\ IdleSplit /\ IdleFallback /\ IdleApi
SpecSect == SectStart /\ [][NextSect]_vars

NextClean == CleanText \/ CleanAgain
CleanStart == InitClean /\ IdleScore /\ IdleSeg /\ IdleSect /\ IdleCall /\ IdleExtract /\ IdleDocx /\ IdleSplit /\ IdleFallback /\ IdleApi
SpecClean == CleanStart /\ [][NextClean]_vars

NextCall ==
    \/ PdfParseTryMethod \/ PdfParseLoopEnd \/ PdfParseOcr \/ PdfParseReturn
    \/ PdfParseBytesTry \/ PdfParseBytesReturn
    \/ TxtParseBytes \/ DocxParseBytes \/ TxtParse \/ DocxParse
    \/ DocParseTempFile
    \/ DocDetectFormat \/ DocAfterParser \/ ContractAfterDoc
CallStart == InitCall /\ IdleScore /\ IdleSeg /\ IdleSect /\ IdleClean /\ IdleExtract /\ IdleDocx /\ IdleSplit /\ IdleFallback /\ IdleApi
SpecCall == CallStart /\ [][NextCall]_vars

NextExtract == ConstructExtractor \/ ConstructAnotherExtractor \/ ExtractClauses
ExtractStart ==
    /\ InitExtract
    /\ IdleScore /\ IdleSeg /\ IdleSect /\ IdleClean /\ IdleCall /\ IdleDocx /\ IdleSplit /\ IdleFallback /\ IdleApi
SpecExtract == ExtractStart /\ [][NextExtract]_vars

NextDocx == DocxExtractContent
DocxStart ==
    /\ InitDocx
    /\ IdleScore /\ IdleSeg /\ IdleSect /\ IdleClean /\ IdleCall /\ IdleExtract /\ IdleSplit /\ IdleFallback /\ IdleApi
SpecDocx == DocxStart /\ [][NextDocx]_vars

NextSplit == RegexSentenceSplit
SplitStart ==
    /\ InitSplit
    /\ IdleScore /\ IdleSeg /\ IdleSect /\ IdleClean /\ IdleCall /\ IdleExtract /\ IdleDocx /\ IdleFallback /\ IdleApi
SpecSplit == SplitStart /\ [][NextSplit]_vars

NextFallback == AnalyzeContractWithFallback
FallbackStart ==
    /\ InitFallback
    /\ IdleScore /\ IdleSeg /\ IdleSect /\ IdleClean /\ IdleCall /\ IdleExtract /\ IdleDocx /\ IdleSplit /\ IdleApi
SpecFallback == FallbackStart /\ [][NextFallback]_vars

NextApi ==
    \E contract_id \in ContractIds, current_user \in Users,
       analysis_results \in AnalysisResults :
        AnalyzeContract(contract_id, current_user, analysis_results)
ApiStart ==
    /\ InitApi
    /\ IdleScore /\ IdleSeg /\ IdleSect /\ IdleClean /\ IdleCall /\ IdleExtract /\ IdleDocx /\ IdleSplit /\ IdleFallback
SpecApi == ApiStart /\ [][NextApi]_vars

NextScore == \E t \in ClauseTypes : CalculateConfidence(t)
ScoreStart == InitScore /\ IdleSeg /\ IdleSect /\ IdleClean /\ IdleCall /\ IdleExtract /\ IdleDocx /\ IdleSplit /\ IdleFallback /\ IdleApi
SpecScore == ScoreStart /\ [][NextScore]_vars

(***************************************************************************)
(* Properties of the confidence engine                                     *)
(***************************************************************************)
\* The definition of the clause type that was scored.
ScoredDefinition == clause_definitions[scored.clause_type]

\* Whether the scored clause type matches case-sensitively.
ScoredCaseSensitive ==
    Get(ScoredDefinition, "case_sensitive", default_case_sensitive)

\* Some word of the segment is one of the keywords.
SomeKeywordOccurs(keywords, case_sensitive) ==
    \E i \in 1..Len(segText), k \in 1..Len(keywords) :
        IF case_sensitive THEN segText[i] = keywords[k]
        ELSE lower(segText[i]) = lower(keywords[k])

\* Some configured pattern (literal phrase or regex object) occurs; both
\* kinds are compiled with re.IGNORECASE.
SomePatternOccurs ==
    \E i \in 1..Len(segText), k \in 1..Len(ScoredDefinition.patterns) :
        lower(segText[i]) = lower(ScoredDefinition.patterns[k].text)

\* C1: every computed confidence lies in [0.0, 1.0], whatever the segment,
\* the clause type and the configured weights (above 1 or below 0 too).
C1_ConfidenceInUnitInterval ==
    scored.done => (0 <= scored.confidence /\ scored.confidence <= One)

\* C1 witness: weights of 1.5 push the sum above 1.0 and the result is 1.0.
C1_Witness ==
    /\ scored.done /\ scored.clause_type = "termination"
    /\ ScoredDefinition.confidence_weights = [k \in WeightKeys |-> 15]
    /\ SomeKeywordOccurs(ScoredDefinition.primary_keywords, ScoredCaseSensitive)
    /\ ~SomeKeywordOccurs(ScoredDefinition.negative_keywords, ScoredCaseSensitive)
    /\ scored.confidence = One

\* C2: when a negative keyword of clause type T matches the segment, the
\* score for T is exactly 0.0, whatever else matches.
C2_NegativeKeywordForcesZero ==
    (scored.done
     /\ SomeKeywordOccurs(ScoredDefinition.negative_keywords, ScoredCaseSensitive))
        => scored.confidence = 0

\* C2 witness: a negative keyword and a primary keyword both occur.
C2_Witness ==
    /\ scored.done
    /\ SomeKeywordOccurs(ScoredDefinition.negative_keywords, ScoredCaseSensitive)
    /\ SomeKeywordOccurs(ScoredDefinition.primary_keywords, ScoredCaseSensitive)
    /\ SomePatternOccurs
    /\ scored.confidence = 0

\* C3: when no primary keyword and no configured pattern of T matches the
\* segment, the score for T is exactly 0.0, however many secondary keywords
\* or context clues match.
C3_NoAnchorForcesZero ==
    (scored.done
     /\ ~SomeKeywordOccurs(ScoredDefinition.primary_keywords, ScoredCaseSensitive)
     /\ ~SomePatternOccurs)
        => scored.confidence = 0

\* C3 witness: secondary keywords and context clues match, nothing else.
C3_Witness ==
    /\ scored.done
    /\ ~SomeKeywordOccurs(ScoredDefinition.primary_keywords, ScoredCaseSensitive)
    /\ ~SomePatternOccurs
    /\ ~SomeKeywordOccurs(ScoredDefinition.negative_keywords, ScoredCaseSensitive)
    /\ SomeKeywordOccurs(ScoredDefinition.secondary_keywords, ScoredCaseSensitive)
    /\ SomeKeywordOccurs(ScoredDefinition.context_clues, ScoredCaseSensitive)
    /\ ScoredDefinition.confidence_weights = <<>>
    /\ scored.confidence = 0

(***************************************************************************)
(* Properties of the window generator                                      *)
(***************************************************************************)
\* The sentences the text splits into.
SplitSentences == split_into_sentences(sentIn)

\* Sum over w = 1..k of (n - w + 1).
RECURSIVE WindowCount(_, _)
WindowCount(n, k) == IF k <= 0 THEN 0 ELSE (n - k + 1) + WindowCount(n, k - 1)

\* The effective maximum window size the claim states: the request, clamped
\* into 1..3.
EffectiveMax ==
    IF segArgs.max_window_size < 1 THEN 1
    ELSE IF segArgs.max_window_size > 3 THEN 3
    ELSE segArgs.max_window_size

\* The segments that cover sentences s..e (0-based, inclusive).
SegmentsOver(s, e) ==
    {i \in 1..Len(segments.list) :
        /\ segments.list[i].start_index = s
        /\ segments.list[i].end_index = e
        /\ segments.list[i].text =
               [k \in 1..(e - s + 1) |-> SplitSentences[s + k].src]}

\* C4: with sliding windows, N sentences give exactly the sum over
\* w = 1..min(max,N) of (N - w + 1) segments, one for every contiguous run of
\* w sentences, where max is the requested size clamped into 1..3 (3 for a
\* request of 3).
C4_WindowCount ==
    (segments.done /\ segArgs.use_sliding_window) =>
        LET N == Len(SplitSentences)
        IN  /\ Len(segments.list) = WindowCount(N, Min(EffectiveMax, N))
            /\ \A w \in 1..Min(EffectiveMax, N) : \A s \in 0..(N - w) :
                   Cardinality(SegmentsOver(s, s + w - 1)) = 1
            /\ \A i \in 1..Len(segments.list) :
                   segments.list[i].end_index - segments.list[i].start_index + 1
                       \in 1..3

\* C4 witness: four sentences and a request of 3 windows give 4 + 3 + 2
\* segments.
C4_Witness ==
    /\ segments.done /\ segArgs.use_sliding_window
    /\ segArgs.max_window_size = 3
    /\ Len(SplitSentences) = 4
    /\ Len(segments.list) = 9

(***************************************************************************)
(* Properties of the section detector                                      *)
(***************************************************************************)
\* No header survives detection in the text.
NoHeaderSurvives == find_section_headers(docLines) = <<>>

\* The single section that spans the whole text.
IsWholeDocumentSection ==
    /\ Len(sections.list) = 1
    /\ sections.list[1].level = 1
    /\ sections.list[1].type = "content"
    /\ sections.list[1].start_pos = 0
    /\ sections.list[1].end_pos = TextLen(docLines)

\* C5 as stated: every text in which no header survives, the empty text
\* included, gives exactly one section, level 1, type "content", spanning
\* 0..len(text).
C5_OneSectionForEveryText ==
    (sections.done /\ NoHeaderSurvives) => IsWholeDocumentSection

\* C5 amended: every non-empty text in which no header survives gives exactly
\* that one section; the empty text gives no section at all.
C5_OneSectionUnlessEmpty ==
    (sections.done /\ NoHeaderSurvives) =>
        IF TextLen(docLines) = 0 THEN sections.list = <<>>
        ELSE IsWholeDocumentSection

\* C5 witness: a text of three header-less lines, returned as one section.
C5_Witness ==
    /\ sections.done /\ NoHeaderSurvives
    /\ Len(docLines) = 3 /\ docLines[1] = "the fee is due."
    /\ IsWholeDocumentSection
    /\ sections.list[1].end_pos = 46

(***************************************************************************)
(* Properties of the text preprocessor                                     *)
(***************************************************************************)
\* C6: clean_text is idempotent, clean_text(clean_text(x)) = clean_text(x).
C6_CleanTextIdempotent ==
    recleanedText.done => recleanedText.text = cleanedText.text

(***************************************************************************)
(* PDF backend chain                                                       *)
(***************************************************************************)
\* The call runs PDFParser's chain (directly or under DocumentParser).
IsPdfCall ==
    \/ call.entry \in {"PDFParser.parse", "PDFParser.parse_bytes"}
    \/ call.entry \in DocEntries /\ call.format = "pdf" /\ call.has_parse_bytes

\* The call entered PDFParser directly and PDFParser has returned.
PdfParserReturned ==
    /\ call.entry \in {"PDFParser.parse", "PDFParser.parse_bytes"}
    /\ call.pc = "returned"

AttemptIndex(method) ==
    CHOOSE i \in 1..4 :
        (i <= Len(Backends) /\ Backends[i] = method) \/ (i = 4 /\ method = OCR)

FirstTwoRaiseThirdReturnsText ==
    call.attempts = <<Attempt("pdfplumber", "raises"),
                      Attempt("PyMuPDF", "raises"),
                      Attempt("PyPDF2", "text")>>

\* C7: when pdfplumber and PyMuPDF raise and PyPDF2 returns text, the result
\* of PDFParser.parse and of PDFParser.parse_bytes has success True,
\* method_used 'PyPDF2' and an errors list holding both earlier failures.
C7_FallbackKeepsEarlierErrors ==
    PdfParserReturned /\ FirstTwoRaiseThirdReturnsText
        => /\ call.result.success
           /\ call.result.method_used = "PyPDF2"
           /\ call.result.has_errors
           /\ {"pdfplumber", "PyMuPDF"} \subseteq Range(call.result.errors)

\* The errors list the caller of the entry point receives.
ReturnedErrors ==
    IF call.entry \in ContractEntries THEN call.contract.errors
    ELSE IF call.entry \in DocEntries THEN call.doc.errors
    ELSE IF call.result.has_errors THEN call.result.errors
    ELSE <<>>

\* C8: no extractor entry point (TXTParser.parse_bytes,
\* DOCXParser.parse_bytes, PDFParser.parse, PDFParser.parse_bytes) and not
\* DocumentParser.parse_bytes ever raises; a result is returned and every
\* failure met on the way has an entry in its errors list.
C8_EntryPointsNeverRaise ==
    /\ call.pc # "raised"
    /\ call.pc = "returned" =>
          Cardinality({i \in 1..Len(call.attempts) :
                          call.attempts[i].outcome = "raises"})
              <= Len(ReturnedErrors)

\* C9: the PDF backends are tried in the fixed order pdfplumber, PyMuPDF,
\* PyPDF2; a backend succeeds only with non-empty stripped text; after a
\* success nothing else is attempted, neither a backend nor OCR, and
\* method_used names the backend that succeeded; OCR is attempted only
\* after every installed backend was attempted without success.
C9_FixedOrderFirstSuccessWins ==
    IsPdfCall =>
        LET n == Len(call.attempts)
            a == call.attempts
        IN  /\ \A i, j \in 1..n :
                  i < j => AttemptIndex(a[i].method) < AttemptIndex(a[j].method)
            /\ call.result.success => call.result.text = "text"
            /\ \A i \in 1..n :
                  a[i].outcome = "text" =>
                      /\ i = n
                      /\ call.result.success
                      /\ call.result.method_used = a[i].method
            /\ \A i \in 1..n :
                  a[i].method = OCR =>
                      \A k \in 1..Len(Backends) :
                          call.has[Backends[k]] =>
                              \E j \in 1..(i - 1) :
                                  /\ a[j].method = Backends[k]
                                  /\ a[j].outcome # "text"

\* PDFParser.parse returned after the second backend succeeded, the first
\* having failed.
C9_Witness ==
    /\ call.entry = "PDFParser.parse"
    /\ call.pc = "returned"
    /\ call.has[OCR]
    /\ call.attempts = <<Attempt("pdfplumber", "empty"),
                         Attempt("PyMuPDF", "text")>>

\* C10: when every PDF backend fails or yields only whitespace and OCR is
\* installed, OCR is attempted before the result is returned, in
\* PDFParser.parse and in PDFParser.parse_bytes alike.
C10_OcrFallbackOnBothPaths ==
    /\ PdfParserReturned
    /\ call.has[OCR]
    /\ \A i \in 1..Len(call.attempts) : call.attempts[i].outcome # "text"
    => \E i \in 1..Len(call.attempts) : call.attempts[i].method = OCR


(***************************************************************************)
(* Error reporting of the parsers                                          *)
(***************************************************************************)
\* The success flag the caller of the entry point receives.
ReturnedSuccess ==
    IF call.entry \in ContractEntries THEN call.contract.success
    ELSE IF call.entry \in DocEntries THEN call.doc.success
    ELSE call.result.success

\* The entry in errors that reports a failed attempt of the method.
ErrorLabel(method) == IF method = OCR THEN "OCR failed" ELSE method

\* C11: when PDF extraction ends without success, the returned result has
\* success False and its errors list has a diagnostic entry for every
\* attempted backend that did not succeed; it is never empty or missing.
C11_FailedPdfResultListsEveryBackend ==
    IsPdfCall /\ call.pc = "returned" /\ ~ReturnedSuccess
        => /\ call.entry \notin DocEntries => call.result.has_errors
           /\ ReturnedErrors # <<>>
           /\ \A i \in 1..Len(call.attempts) :
                 call.attempts[i].outcome # "text" =>
                     ErrorLabel(call.attempts[i].method)
                         \in Range(ReturnedErrors)

\* C12: when an earlier backend fails and a later one succeeds, the result
\* DocumentParser.parse / parse_bytes and ContractParser.process_contract /
\* process_contract_bytes return with success True still carries the
\* earlier backend's failure message in errors.
C12_SuccessKeepsEarlierFailures ==
    /\ call.entry \in DocEntries
    /\ IsPdfCall
    /\ call.pc = "returned"
    /\ ReturnedSuccess
    => \A i \in 1..Len(call.attempts) :
          call.attempts[i].outcome = "raises" =>
              ErrorLabel(call.attempts[i].method) \in Range(ReturnedErrors)

\* C13: in DocumentParser.parse_bytes, when the selected parser has no
\* parse_bytes and a temporary file is created, the file no longer exists
\* when parse_bytes returns, whether the parser's parse returned success,
\* returned failure or raised.
C13_TempFileDeletedOnEveryPath ==
    call.pc \in {"returned", "contract_after_doc"} => call.tmp_file # "exists"

\* C14: when extraction of a TXT, DOCX or PDF input nominally succeeds with
\* an empty or whitespace-only text, DocumentParser.parse_bytes and
\* ContractParser.process_contract_bytes return success False with a
\* diagnostic, never success True with empty text and no sections.
C14_EmptyTextFailsTheCall ==
    /\ call.entry \in DocEntries \cap BytesEntries
    /\ call.has_parse_bytes
    /\ call.pc = "returned"
    /\ ~call.parser_raised /\ call.result.success /\ call.result.text = ""
    => ~ReturnedSuccess /\ ReturnedErrors # <<>>

(***************************************************************************)
(* Properties of extract_clauses                                           *)
(***************************************************************************)
\* The threshold of a clause type as the configuration file gives it.
ConfiguredThreshold(t) ==
    LET d == config_data.clause_definitions[t]
    IN  IF "minimum_confidence_threshold" \in DOMAIN d
        THEN d["minimum_confidence_threshold"]
        ELSE IF "default_confidence_threshold" \in DOMAIN config_data.global_config
        THEN config_data.global_config["default_confidence_threshold"]
        ELSE 5

\* The windows of the text, and the confidence of a window for a type.
WindowsOf(nltk_available) ==
    LET candidates == candidate_sentences(contract_text, nltk_available)
        segs == segment_text([i \in 1..Len(candidates) |-> candidates[i].len],
                             TRUE, 3)
    IN  {[segment_id |-> segs[i].segment_id,
          text |-> segment_words(candidates, segs[i].text)] :
            i \in 1..Len(segs)}

ConfidenceOf(window, t) ==
    calculate_confidence(window.text, t, extractor.clause_definitions[t],
                         extractor.clause_definitions,
                         extractor.compiled_patterns,
                         extractor.default_case_sensitive)

TypeIndex(t) == CHOOSE k \in 1..Len(ClauseTypeOrder) : ClauseTypeOrder[k] = t

C16_SameTextSameOutput ==
    \A i, j \in 1..Len(extracted) :
        extracted[i].clauses = extracted[j].clauses

\* C17: after the constructor returned, no call changes
\* clause_definitions, global_config or compiled_patterns.
C17_TablesReadOnlyAfterConstruction ==
    [][extractor.ready =>
          /\ extractor'.clause_definitions = extractor.clause_definitions
          /\ extractor'.global_config = extractor.global_config
          /\ extractor'.compiled_patterns = extractor.compiled_patterns]_vars

\* Two calls of extract_clauses on a text with candidates have returned.
C17_Witness ==
    /\ extractor.ready
    /\ Len(extracted) = MaxCalls
    /\ extracted[MaxCalls].clauses # <<>>

\* Sentence i of the text, as split, has exactly one primary-keyword match
\* of type t and no negative keyword of t.
OnePrimaryMatch(sentence, t) ==
    /\ findall_count(extractor.compiled_patterns[t].primary, sentence.words) = 1
    /\ ~search(extractor.compiled_patterns[t].negative, sentence.words)

\* C18: with default weights and the default threshold 0.5, a text with
\* two adjacent sentences that each hold one primary-keyword match of type
\* T and no negative keyword of T yields a candidate of type T with
\* confidence at least 0.8.
C18_TwoPrimaryMatchesYieldCandidate ==
    \A r \in 1..Len(extracted), t \in ClauseTypes :
        LET sentences ==
                candidate_sentences(contract_text, extracted[r].nltk_available)
        IN  /\ ConfiguredThreshold(t) = 5
            /\ config_data.clause_definitions[t].confidence_weights = <<>>
            /\ \E i \in 1..(Len(sentences) - 1) :
                  OnePrimaryMatch(sentences[i], t)
                      /\ OnePrimaryMatch(sentences[i + 1], t)
            => \E k \in 1..Len(extracted[r].clauses) :
                  /\ extracted[r].clauses[k].clause_type = t
                  /\ extracted[r].clauses[k].confidence >= 8

(***************************************************************************)
(* Properties of the DOCX extractor                                        *)
(***************************************************************************)
\* The level a built-in heading style denotes.
HeadingLevel(name) ==
    CASE name = <<"Heading", " ", "1">> -> 1
      [] name = <<"Heading", " ", "2">> -> 2
      [] name = <<"Heading", " ", "9">> -> 9
      [] OTHER -> 0

\* The tokens from position i on start with the sequence p.
StartsAt(text, i, p) ==
    /\ i + Len(p) - 1 <= Len(text)
    /\ \A k \in 1..Len(p) : text[i + k - 1] = p[k]

\* C19: a non-empty paragraph with a level-n heading style is emitted as
\* exactly n '#', one space and the paragraph text, for every n; and a
\* heading style never makes the extraction of the document fail.
C19_HeadingMarkers ==
    docx_result.done =>
        /\ docx_result.success
        /\ \A i \in 1..Len(docx_document.paragraphs) :
              LET para == docx_document.paragraphs[i]
                  n == HeadingLevel(para.style)
              IN  n > 0 /\ para.text = "Term" =>
                      \E k \in 1..Len(docx_result.text) :
                          StartsAt(docx_result.text, k,
                                   <<"\n">> \o [j \in 1..n |-> "#"]
                                   \o <<" ", para.text>>)

(***************************************************************************)
(* Properties of the preprocessor's output                                 *)
(***************************************************************************)
\* The text holds n or more consecutive tokens t.
HasRun(text, t, n) ==
    \E i \in 1..(Len(text) - n + 1) : \A k \in 0..(n - 1) : text[i + k] = t

C21_SectionsPartitionTheText ==
    (sections.done /\ TextLen(docLines) > 0) =>
        LET list == sections.list
        IN  /\ list # <<>>
            /\ list[1].start_pos = 0
            /\ list[Len(list)].end_pos = TextLen(docLines)
            /\ \A i \in 1..(Len(list) - 1) :
                   /\ list[i].start_pos <= list[i + 1].start_pos
                   /\ list[i].end_pos = list[i + 1].start_pos

(***************************************************************************)
(* Properties of the pattern matches                                       *)
(***************************************************************************)
\* The number of configured patterns of the scored type, literal phrases
\* and regex objects alike, that match the segment.
MatchingPatternCount ==
    Cardinality({k \in 1..Len(ScoredDefinition.patterns) :
        \E i \in 1..Len(segText) :
            lower(segText[i]) = lower(ScoredDefinition.patterns[k].text)})

\* The configured pattern weight of the scored type, 0.2 by default.
ConfiguredPatternWeight ==
    Get(ScoredDefinition.confidence_weights, "pattern_match",
        PatternBoostPerMatch)

\* C22: the pattern contribution to the score is min(1.0, k * w), k the
\* number of distinct configured patterns that match (literal phrases and
\* regex objects alike) and w the configured pattern weight (default 0.2).
\* It is read off the segments in which no keyword and no context clue
\* matches, where the score is the pattern contribution alone.
C22_PatternContribution ==
    (/\ scored.done
     /\ ~ScoredCaseSensitive
     /\ ~SomeKeywordOccurs(ScoredDefinition.primary_keywords, FALSE)
     /\ ~SomeKeywordOccurs(ScoredDefinition.secondary_keywords, FALSE)
     /\ ~SomeKeywordOccurs(ScoredDefinition.negative_keywords, FALSE)
     /\ ~SomeKeywordOccurs(ScoredDefinition.context_clues, FALSE))
        => scored.confidence =
               IF MatchingPatternCount = 0 THEN 0
               ELSE normalize_confidence(
                        Min(One, MatchingPatternCount * ConfiguredPatternWeight))

\* A word of the segment is, letter for letter, one of the configured
\* patterns of the scored type.
SomePatternOccursExactly ==
    \E i \in 1..Len(segText), k \in 1..Len(ScoredDefinition.patterns) :
        segText[i] = ScoredDefinition.patterns[k].text

\* C23: with case_sensitive = true every kind of match is case-sensitive: a
\* segment that holds the keywords and patterns of the type in another
\* letter case only scores 0.0.
C23_CaseSensitiveEveryMatch ==
    (/\ scored.done
     /\ ScoredCaseSensitive
     /\ ~SomeKeywordOccurs(ScoredDefinition.primary_keywords, TRUE)
     /\ ~SomePatternOccursExactly)
        => scored.confidence = 0

(***************************************************************************)
(* Properties of the sentence splitter                                     *)
(***************************************************************************)
\* The sentences returned, by their position among the tokenized ones: with
\* single-sentence segments the text of segment i is sentence i.
ReturnedSentences ==
    [i \in 1..Len(segments.list) |-> segments.list[i].text[1]]

\* C24: the splitter discards exactly the sentences whose trimmed length is
\* less than 10 characters; every sentence of 10 or more characters is
\* kept, in its original order.
C24_SentencesOfTenCharactersKept ==
    (segments.done /\ ~segArgs.use_sliding_window) =>
        /\ Range(ReturnedSentences) = {i \in 1..Len(sentIn) : sentIn[i] >= 10}
        /\ \A i \in 1..(Len(ReturnedSentences) - 1) :
               ReturnedSentences[i] < ReturnedSentences[i + 1]

\* The text holds something at position p: a chunk, or the text after the
\* last end mark.
HasPosition(p) ==
    \/ p \in 1..Len(split_input.chunks)
    \/ p = Len(split_input.chunks) + 1 /\ split_input.tail_len > 0

\* C25: in the regex fallback a full stop of a listed abbreviation does not
\* end a sentence: what stands before and after it ends up in the same
\* returned sentence, and none of it is lost by the re-merge.  (Read off
\* the abbreviations whose chunk is long enough to pass the length filter.)
C25_AbbreviationDoesNotEndSentence ==
    split_output.done =>
        \A i \in 1..Len(split_input.chunks) :
            (/\ looks_like_abbreviation(split_input.chunks[i])
             /\ HasPosition(i + 1)
             /\ split_input.chunks[i].len > MinSentenceLength)
                => \E k \in 1..Len(split_output.list) :
                       {i, i + 1} \subseteq Range(split_output.list[k].src)

(***************************************************************************)
(* Properties of the header deduplication                                  *)
(***************************************************************************)
\* The header matches of the text, sorted by offset, and those that
\* _deduplicate_headers lets through.
SortedHeaders == sort_by_start(find_all_patterns(docLines, 1, <<>>))
SurvivingHeaders == deduplicate_headers(SortedHeaders)

\* sub is seq with some of its elements left out.
RECURSIVE IsSubsequence(_, _)
IsSubsequence(sub, seq) ==
    IF sub = <<>> THEN TRUE
    ELSE IF seq = <<>> THEN FALSE
    ELSE IF Head(sub) = Head(seq) THEN IsSubsequence(Tail(sub), Tail(seq))
    ELSE IsSubsequence(sub, Tail(seq))

\* C26: _deduplicate_headers keeps the first match and returns a
\* subsequence of the sorted matches in which every two consecutive headers
\* are at least 10 characters apart (start of the next minus end of the
\* previous) and differ in their normalized titles; so no two of them
\* overlap.
C26_SurvivingHeadersApartAndDistinct ==
    (sections.done /\ SortedHeaders # <<>>) =>
        /\ SurvivingHeaders[1] = SortedHeaders[1]
        /\ IsSubsequence(SurvivingHeaders, SortedHeaders)
        /\ \A i \in 1..(Len(SurvivingHeaders) - 1) :
               /\ SurvivingHeaders[i + 1].start - SurvivingHeaders[i].end >= 10
               /\ ~similar_titles(SurvivingHeaders[i + 1].title,
                                  SurvivingHeaders[i].title)
               /\ SurvivingHeaders[i].end <= SurvivingHeaders[i + 1].start
        /\ [i \in 1..Len(sections.list) |-> sections.list[i].start_pos]
               = [i \in 1..Len(SurvivingHeaders) |-> SurvivingHeaders[i].start]

\* Two headers survive in a text where a third match was dropped.
C26_Witness ==
    /\ sections.done
    /\ Len(SurvivingHeaders) >= 2
    /\ Len(SortedHeaders) > Len(SurvivingHeaders)
    /\ Len(sections.list) = Len(SurvivingHeaders)

(***************************************************************************)
(* Properties of the section classification                                *)
(***************************************************************************)
\* The title is exactly one keyword of the vocabulary, in some letter case.
TitleIsKeyword(title, k) ==
    Len(title) = 1 /\ normalize_title_line(title[1]) = section_keywords[k]

\* C27: a section whose title is exactly a keyword k of the vocabulary, in
\* any letter case, has type k; so a contract with a section titled
\* 'Termination' is not reported as missing the 'termination' section.
C27_KeywordTitleClassifiedAsKeyword ==
    /\ sections.done =>
           \A i \in 1..Len(sections.list), k \in 1..Len(section_keywords) :
               TitleIsKeyword(sections.list[i].title, k)
                   => sections.list[i].type = section_keywords[k]
    /\ (validation.done
        /\ \E i \in 1..Len(sections.list) :
               sections.list[i].title = <<"Termination">>)
           => "termination" \notin Range(validation.missing_sections)

(***************************************************************************)
(* Properties of the fallback analysis                                     *)
(***************************************************************************)
\* Some keyword of the clause type occurs in blocks from..to of the text.
KeywordOfTypeOccurs(t, from, to) ==
    \E b \in from..to, k \in 1..Len(FallbackKeywords[t]) :
        FallbackKeywords[t][k] \in Occurrences(fallback_text[b])

\* C28: the fallback analysis returns for each of the five clause types
\* either "Not found" or an excerpt that holds one of the type's keywords,
\* and "Not found" whenever none of the type's keywords occurs in the text.
C28_FallbackExcerptHoldsKeyword ==
    fallback_results.done =>
        \A k \in 1..Len(FallbackClauseTypes) :
            LET t == FallbackClauseTypes[k]
                r == fallback_results.results[t]
            IN  /\ r # NotFound => KeywordOfTypeOccurs(t, r.from, r.to)
                /\ ~KeywordOfTypeOccurs(t, 1, Len(fallback_text)) => r = NotFound

(***************************************************************************)
(* Properties of the contract pipeline                                     *)
(***************************************************************************)
\* C29: on success process_contract and process_contract_bytes return as
\* raw_text the text of the format extractor before any preprocessing and
\* as cleaned_text that text cleaned exactly once: the preprocessor is not
\* applied twice along the pipeline.  (Read off the calls that go through
\* the format parsers as shipped.)
C29_RawTextUncleanedCleanedOnce ==
    (/\ call.entry \in ContractEntries
     /\ call.has_parse_bytes
     /\ call.pc = "returned"
     /\ call.contract.success)
        => /\ call.contract.raw_text = call.result.text
           /\ call.contract.cleaned_text = cleaned(call.result.text)
           /\ call.clean_count = 1

(***************************************************************************)
(* Properties of the analyze endpoint                                      *)
(***************************************************************************)
\* C30: the endpoint changes the stored analysis_results only when it
\* answers with a successful response: an answer of 404, 403 or 500 leaves
\* the analysis_results of every contract unchanged, and when the analysis
\* succeeds for a contract the caller owns the answer is the five clause
\* results, not an error.
C30_ErrorLeavesStoredAnalysis ==
    [][/\ api_response'.status_code # HTTP_200 => contracts' = contracts
       /\ (/\ api_response'.contract_id \in DOMAIN contracts
           /\ contracts[api_response'.contract_id].user_id = api_response'.user
           /\ api_response'.analysis_results # "error")
              => api_response'.status_code = HTTP_200]_apiVars

====
